---------------------------- MODULE Spec2Model ----------------------------
(***************************************************************************)
(* Gravity_Simulation: the physics engine (Vector2D, CelestialBody,        *)
(* GravitySimulation), the SimulationManager singleton, the control API    *)
(* handlers and the background stepping loop of src/api/tasks.py.          *)
(*                                                                         *)
(* Numbers.  Python floats are modelled as fixed-point integers: the       *)
(* integer n stands for the float n / Scale.  Every float operation is     *)
(* computed in the order the source computes it and rounded to the nearest *)
(* point of the grid, so that x * (1 / m) and x / m differ in the          *)
(* model as they may in floating point.  The float range is scaled down    *)
(* with the values: a ** 2 whose result exceeds FloatMax raises            *)
(* OverflowError, as float.__pow__ does beyond sys.float_info.max.         *)
(*                                                                         *)
(* Objects.  GravitySimulation objects live in the heap `sims`; a          *)
(* reference to one is its index.  A CelestialBody is identified by its    *)
(* index in the bodies list of its simulation (lists only grow).           *)
(***************************************************************************)
EXTENDS Integers, Sequences, FiniteSets, TLC

VARIABLES
    sims,           \* heap of GravitySimulation objects
    manager,        \* SimulationManager().simulation: index in sims, 0 before the singleton exists
    tasks,          \* asyncio tasks created for _run_simulation_update_loop
    handle,         \* _simulation_task_handle: index in tasks, 0 for None
    should_stop,    \* _simulation_task_should_stop
    running,        \* the task the event loop is executing now, 0 when it is between callbacks
    response,       \* the last HTTP response of the control API
    lastOp,         \* the last operation an outside caller invoked, with its arguments
    ticks,          \* number of update() calls that went past the pause check
    ops,            \* number of control operations served
    solo            \* a CelestialBody driven directly by its caller, outside any simulation

vars == <<sims, manager, tasks, handle, should_stop, running, response, lastOp, ticks, ops, solo>>

----------------------------------------------------------------------------
(* Bounds of the model *)

\* fixed-point resolution: the integer n stands for the float n / Scale.
\* 1/20 is the coarsest grid on which the values of the two-body scenario of
\* tests/unit/test_gravity_simulation.py (dt = 0.1, 1 / 20.0 = 0.05) are exact
Scale == 20
\* largest magnitude a ** 2 may produce before float.__pow__ raises OverflowError
FloatMax == 5000
\* update() calls explored per behaviour
MaxTicks == 2
\* control operations explored per behaviour
MaxOps == 2
\* asyncio tasks created per behaviour
MaxTasks == 2
\* bodies a directly driven engine holds
MaxBodies == 2
\* update_position calls on a directly driven body
MaxCalls == 52

----------------------------------------------------------------------------
(* Fixed-point float arithmetic *)

Abs(a) == IF a < 0 THEN -a ELSE a

Sign(a) == IF a < 0 THEN -1 ELSE IF a > 0 THEN 1 ELSE 0

\* a / b rounded to the nearest integer, as float operations round to the
\* nearest float (b # 0); a tie goes away from zero
RDiv[a \in Int, b \in Int] ==
    Sign(a) * Sign(b) * ((Abs(a) \div Abs(b))
                         + (IF 2 * (Abs(a) % Abs(b)) >= Abs(b) THEN 1 ELSE 0))

\* float a * float b
FMul(a, b) == RDiv[a * b, Scale]

\* float a / float b
FDiv(a, b) == RDiv[a * Scale, b]

\* the integer square root of v >= 0, by bisection of lo..hi
ISqrt[v \in Nat, lo \in Nat, hi \in Nat] ==
    IF lo >= hi THEN lo
    ELSE LET mid == (lo + hi + 1) \div 2
         IN  IF mid * mid <= v THEN ISqrt[v, mid, hi] ELSE ISqrt[v, lo, mid - 1]

\* float a ** 0.5 (a >= 0); the root of a * Scale is at most (a + Scale) / 2
FSqrt(a) == ISqrt[a * Scale, 0, (a + Scale) \div 2]

\* float a ** 2 raises OverflowError when the result is out of range
\* (FloatMax > 1, so the square of an a beyond FloatMax is beyond it too)
PowOverflows(a) == Abs(a) > FloatMax \/ Abs(FMul(a, a)) > FloatMax

----------------------------------------------------------------------------
(* Vector2D *)

Vector2D(x, y) == [x |-> x, y |-> y]

\* the values of Vector2D
Vectors == [x : Int, y : Int]

VAdd[a \in Vectors, b \in Vectors] == Vector2D(a.x + b.x, a.y + b.y)

VSub[a \in Vectors, b \in Vectors] == Vector2D(a.x - b.x, a.y - b.y)

VMul[v \in Vectors, scalar \in Int] == Vector2D(FMul(v.x, scalar), FMul(v.y, scalar))

ZeroVector == Vector2D(0, 0)

\* magnitude raises OverflowError: self.x ** 2 or self.y ** 2 is out of range
MagnitudeRaises(v) == PowOverflows(v.x) \/ PowOverflows(v.y)

\* math.sqrt(self.x ** 2 + self.y ** 2)
magnitude(v) == FSqrt(FMul(v.x, v.x) + FMul(v.y, v.y))

\* normalize: the zero vector when the magnitude is zero
normalize(v) ==
    LET mag == magnitude(v)
    IN  IF mag = 0 THEN Vector2D(0, 0) ELSE Vector2D(FDiv(v.x, mag), FDiv(v.y, mag))

\* copy: Vector2D(self.x, self.y)
copy(v) == Vector2D(v.x, v.y)

----------------------------------------------------------------------------
(* CelestialBody *)

DefaultMaxTrailLength == 50

\* a constructor that lets a mass or a radius of zero through
CelestialBodyRaises_negative_only(mass, radius) == mass < 0 \/ radius < 0

\* a constructor that does not look at the radius
CelestialBodyRaises_mass_only(mass, radius) == mass <= 0

\* CelestialBody.__init__ raises ValueError
CelestialBodyRaises(mass, radius) == mass <= 0 \/ radius <= 0

CelestialBody(mass, position, velocity, radius, color, id) ==
    [id |-> id, mass |-> mass, position |-> position, velocity |-> velocity,
     radius |-> radius, color |-> color, trail |-> <<>>,
     max_trail_length |-> DefaultMaxTrailLength]

\* the eviction test off by one: the trail may hold one entry too many
TrailTooLong_off_by_one(trail, max_trail_length) == Len(trail) > max_trail_length + 1

\* the eviction test of update_position
TrailTooLong(trail, max_trail_length) == Len(trail) > max_trail_length

\* the move by the velocity itself, whatever the time step
update_position_unscaled(body, time_step) ==
    LET position == VAdd[body.position, body.velocity]
        inserted == Append(body.trail, position)
    IN  [body EXCEPT !.position = position,
                     !.trail = IF TrailTooLong(inserted, body.max_trail_length)
                               THEN Tail(inserted) ELSE inserted]

\* the snapshot taken before the move, and the oldest entry evicted before
\* the new one is inserted
update_position_evict_first(body, time_step) ==
    LET position == VAdd[body.position, VMul[body.velocity, time_step]]
        evicted  == IF TrailTooLong(body.trail, body.max_trail_length)
                    THEN Tail(body.trail) ELSE body.trail
    IN  [body EXCEPT !.position = position, !.trail = Append(evicted, body.position)]

update_position(body, time_step) ==
    LET position == VAdd[body.position, VMul[body.velocity, time_step]]
        appended == Append(body.trail, position)
        trail    == IF TrailTooLong(appended, body.max_trail_length)
                    THEN Tail(appended) ELSE appended
    IN  [body EXCEPT !.position = position, !.trail = trail]

\* the acceleration computed as force / mass
apply_force_dividing(body, force, time_step) ==
    IF body.mass = 0
    THEN body
    ELSE LET acceleration == Vector2D(FDiv(force.x, body.mass), FDiv(force.y, body.mass))
         IN  [body EXCEPT !.velocity = VAdd[body.velocity, VMul[acceleration, time_step]]]

apply_force(body, force, time_step) ==
    IF body.mass = 0
    THEN body
    ELSE LET acceleration == VMul[force, FDiv(Scale, body.mass)]
         IN  [body EXCEPT !.velocity = VAdd[body.velocity, VMul[acceleration, time_step]]]

----------------------------------------------------------------------------
(* GravitySimulation *)

\* epsilon = 1e-9: the softening added to the squared distance, at the model's resolution
DefaultEpsilon == 2

GravitySimulation(gravitational_constant, epsilon) ==
    [gravitational_constant |-> gravitational_constant, bodies |-> <<>>,
     epsilon |-> epsilon, paused |-> FALSE, time_step_display |-> 0,
     net_forces |-> <<>>]

\* an add_body that puts the new body in front of the others
add_body_prepending(sim, body) == [sim EXCEPT !.bodies = <<body>> \o @]

\* an add_body that skips a body whose id the list already holds
add_body_unique(sim, body) ==
    IF \E i \in 1..Len(sim.bodies) : sim.bodies[i].id = body.id
    THEN sim
    ELSE [sim EXCEPT !.bodies = Append(@, body)]

add_body(sim, body) == [sim EXCEPT !.bodies = Append(@, body)]

\* delta_position.x**2 + delta_position.y**2 raises OverflowError
PairRaises(body_a, body_b) ==
    LET delta_position == VSub[body_b.position, body_a.position]
    IN  PowOverflows(delta_position.x) \/ PowOverflows(delta_position.y)

\* distance_r ** 2 underflows to zero while distance_r is not zero: the
\* division of force_magnitude raises ZeroDivisionError
PairDividesByZero(sim, body_a, body_b) ==
    LET delta_position   == VSub[body_b.position, body_a.position]
        distance_squared == FMul(delta_position.x, delta_position.x)
                            + FMul(delta_position.y, delta_position.y)
        distance_r       == FSqrt(distance_squared + sim.epsilon)
    IN  distance_r # 0 /\ FMul(distance_r, distance_r) = 0

\* the force with the mass of body_a taken twice and the mass of body_b not at all
PairForce_own_mass(sim, body_a, body_b) ==
    LET delta_position   == VSub[body_b.position, body_a.position]
        distance_squared == FMul(delta_position.x, delta_position.x)
                            + FMul(delta_position.y, delta_position.y)
        distance_r       == FSqrt(distance_squared + sim.epsilon)
    IN  IF distance_r = 0
        THEN ZeroVector
        ELSE LET force_magnitude ==
                     FDiv(FMul(FMul(sim.gravitational_constant, body_a.mass), body_a.mass),
                          FMul(distance_r, distance_r))
                 direction_vec == Vector2D(FDiv(delta_position.x, distance_r),
                                           FDiv(delta_position.y, distance_r))
             IN  VMul[direction_vec, force_magnitude]

\* the force falling off with the distance instead of its square
PairForce_inverse_distance(sim, body_a, body_b) ==
    LET delta_position   == VSub[body_b.position, body_a.position]
        distance_squared == FMul(delta_position.x, delta_position.x)
                            + FMul(delta_position.y, delta_position.y)
        distance_r       == FSqrt(distance_squared + sim.epsilon)
    IN  IF distance_r = 0
        THEN ZeroVector
        ELSE LET force_magnitude ==
                     FDiv(FMul(FMul(sim.gravitational_constant, body_a.mass), body_b.mass),
                          distance_r)
                 direction_vec == Vector2D(FDiv(delta_position.x, distance_r),
                                           FDiv(delta_position.y, distance_r))
             IN  VMul[direction_vec, force_magnitude]

\* the force with two bodies at one place pushed apart along x
PairForce_push_apart(sim, body_a, body_b) ==
    LET delta_position   == VSub[body_b.position, body_a.position]
        distance_squared == FMul(delta_position.x, delta_position.x)
                            + FMul(delta_position.y, delta_position.y)
        distance_r       == FSqrt(distance_squared + sim.epsilon)
    IN  IF delta_position = ZeroVector
        THEN Vector2D(-Scale, 0)
        ELSE LET force_magnitude ==
                     FDiv(FMul(FMul(sim.gravitational_constant, body_a.mass), body_b.mass),
                          FMul(distance_r, distance_r))
                 direction_vec == Vector2D(FDiv(delta_position.x, distance_r),
                                           FDiv(delta_position.y, distance_r))
             IN  VMul[direction_vec, force_magnitude]

\* the force body_b exerts on body_a (the body of the inner loop)
PairForce(sim, body_a, body_b) ==
    LET delta_position   == VSub[body_b.position, body_a.position]
        distance_squared == FMul(delta_position.x, delta_position.x)
                            + FMul(delta_position.y, delta_position.y)
        distance_r       == FSqrt(distance_squared + sim.epsilon)
    IN  IF distance_r = 0
        THEN ZeroVector
        ELSE LET force_magnitude ==
                     FDiv(FMul(FMul(sim.gravitational_constant, body_a.mass), body_b.mass),
                          FMul(distance_r, distance_r))
                 direction_vec == Vector2D(FDiv(delta_position.x, distance_r),
                                           FDiv(delta_position.y, distance_r))
             IN  VMul[direction_vec, force_magnitude]

\* one iteration of the outer loop: the inner loop over every j # i
RECURSIVE NetForceFrom(_, _, _)
NetForceFrom(sim, i, j) ==
    IF j > Len(sim.bodies) THEN ZeroVector
    ELSE IF i = j THEN NetForceFrom(sim, i, j + 1)
    ELSE VAdd[PairForce(sim, sim.bodies[i], sim.bodies[j]), NetForceFrom(sim, i, j + 1)]

NetForceOn(sim, i) == NetForceFrom(sim, i, 1)

\* the inner loop of body i raises
NetForceRaises(sim, i) ==
    \E j \in 1..Len(sim.bodies) :
        /\ j # i
        /\ \/ PairRaises(sim.bodies[i], sim.bodies[j])
           \/ PairDividesByZero(sim, sim.bodies[i], sim.bodies[j])

\* a calculate_net_forces that starts each sum from the force it stored last
calculate_net_forces_accumulating(sim) ==
    IF \E i \in 1..Len(sim.bodies) : NetForceRaises(sim, i)
    THEN [raised |-> TRUE, forces |-> <<>>]
    ELSE [raised |-> FALSE,
          forces |-> [i \in 1..Len(sim.bodies) |->
                         VAdd[IF i \in DOMAIN sim.net_forces THEN sim.net_forces[i] ELSE ZeroVector,
                              NetForceOn(sim, i)]]]

\* calculate_net_forces: the dictionary body -> force, as the sequence of the
\* forces in the order of bodies; raised when a ** 2 overflows or the
\* division by distance_r ** 2 divides by zero
calculate_net_forces(sim) ==
    IF \E i \in 1..Len(sim.bodies) : NetForceRaises(sim, i)
    THEN [raised |-> TRUE, forces |-> <<>>]
    ELSE [raised |-> FALSE,
          forces |-> [i \in 1..Len(sim.bodies) |-> NetForceOn(sim, i)]]

\* forces_this_step.get(body, Vector2D(0, 0))
ForceOf(forces, i) == IF i \in DOMAIN forces THEN forces[i] ELSE ZeroVector

\* the first loop of update: apply_force on every body
ApplyForces(sim, forces, time_step) ==
    [sim EXCEPT !.bodies =
        [i \in 1..Len(sim.bodies) |-> apply_force(sim.bodies[i], ForceOf(forces, i), time_step)]]

\* a second loop that leaves the bodies in reverse order
UpdatePositions_reversed(sim, time_step) ==
    [sim EXCEPT !.bodies =
        [i \in 1..Len(sim.bodies) |->
            update_position(sim.bodies[Len(sim.bodies) + 1 - i], time_step)]]

\* the second loop of update: update_position on every body
UpdatePositions(sim, time_step) ==
    [sim EXCEPT !.bodies =
        [i \in 1..Len(sim.bodies) |-> update_position(sim.bodies[i], time_step)]]

\* update without its pause check
update_ignoring_pause(sim, time_step) ==
    LET forces_this_step == calculate_net_forces(sim)
    IN  IF forces_this_step.raised
        THEN [raised |-> TRUE, sim |-> sim]
        ELSE [raised |-> FALSE,
              sim |-> UpdatePositions(
                          ApplyForces([sim EXCEPT !.net_forces = forces_this_step.forces],
                                      forces_this_step.forces, time_step),
                          time_step)]

\* update with its two loops swapped: positions move by the pre-step velocities
update_positions_first(sim, time_step) ==
    IF sim.paused
    THEN [raised |-> FALSE, sim |-> sim]
    ELSE LET forces_this_step == calculate_net_forces(sim)
         IN  IF forces_this_step.raised
             THEN [raised |-> TRUE, sim |-> sim]
             ELSE [raised |-> FALSE,
                   sim |-> ApplyForces(
                               UpdatePositions([sim EXCEPT !.net_forces = forces_this_step.forces],
                                               time_step),
                               forces_this_step.forces, time_step)]

\* update computing each body's force when its turn comes, after the bodies
\* before it in the sequence have moved
RECURSIVE StaggeredFrom(_, _, _)
StaggeredFrom(sim, i, time_step) ==
    IF i > Len(sim.bodies) THEN sim
    ELSE LET moved == update_position(apply_force(sim.bodies[i], NetForceOn(sim, i), time_step),
                                      time_step)
         IN  StaggeredFrom([sim EXCEPT !.bodies[i] = moved], i + 1, time_step)

update_staggered(sim, time_step) ==
    IF sim.paused
    THEN [raised |-> FALSE, sim |-> sim]
    ELSE LET forces_this_step == calculate_net_forces(sim)
         IN  IF forces_this_step.raised
             THEN [raised |-> TRUE, sim |-> sim]
             ELSE [raised |-> FALSE,
                   sim |-> StaggeredFrom([sim EXCEPT !.net_forces = forces_this_step.forces],
                                         1, time_step)]

\* update(time_step) run without interruption: the simulation after the call,
\* and whether the call raised
update(sim, time_step) ==
    IF sim.paused
    THEN [raised |-> FALSE, sim |-> sim]
    ELSE LET forces_this_step == calculate_net_forces(sim)
         IN  IF forces_this_step.raised
             THEN [raised |-> TRUE, sim |-> sim]
             ELSE [raised |-> FALSE,
                   sim |-> UpdatePositions(
                               ApplyForces([sim EXCEPT !.net_forces = forces_this_step.forces],
                                           forces_this_step.forces, time_step),
                               time_step)]

----------------------------------------------------------------------------
(* State shared by every specification before anything runs *)

NoResponse == [code |-> 0]

NoBody == [n |-> 0]

Quiet ==
    /\ tasks = <<>>
    /\ handle = 0
    /\ should_stop = FALSE
    /\ running = 0
    /\ response = NoResponse
    /\ lastOp = [name |-> "init"]
    /\ ticks = 0
    /\ ops = 0

----------------------------------------------------------------------------
(* SpecEngine: a GravitySimulation driven directly by its caller, as the    *)
(* unit tests and SimulationService.run_simulation_loop drive it            *)

\* gravitational constants the caller constructs the engine with
EngineG == {100}

\* time steps the caller passes to update: negative, zero, positive
EngineTimeSteps == {-10, 0, 10}

\* bodies the caller adds: two bodies within reach of each other, one whose
\* distance to them is beyond the range of ** 2
EngineBodies ==
    { CelestialBody(10, Vector2D(0, 0), Vector2D(0, 0), 10, <<0, 0, 0>>, "a"),
      CelestialBody(20, Vector2D(30, 0), Vector2D(0, 10), 10, <<0, 0, 0>>, "b"),
      CelestialBody(30, Vector2D(1000, 40), Vector2D(0, 0), 10, <<0, 0, 0>>, "far") }

InitEngine ==
    /\ Quiet
    /\ \E g \in EngineG : sims = << GravitySimulation(g, DefaultEpsilon) >>
    /\ manager = 0
    /\ solo = NoBody

EngineAddBody(body) ==
    /\ Len(sims[1].bodies) < MaxBodies
    /\ sims' = [sims EXCEPT ![1] = add_body(@, body)]
    /\ lastOp' = [name |-> "add_body", body |-> body]
    /\ UNCHANGED <<manager, tasks, handle, should_stop, running, response, ticks, ops, solo>>

EngineSetPaused(paused) ==
    /\ sims' = [sims EXCEPT ![1].paused = paused]
    /\ lastOp' = [name |-> "paused"]
    /\ UNCHANGED <<manager, tasks, handle, should_stop, running, response, ticks, ops, solo>>

EngineCalculateNetForces ==
    /\ LET r == calculate_net_forces(sims[1])
       IN  /\ sims' = IF r.raised THEN sims ELSE [sims EXCEPT ![1].net_forces = r.forces]
           /\ lastOp' = [name |-> "calculate_net_forces", raised |-> r.raised,
                         returned |-> r.forces]
    /\ UNCHANGED <<manager, tasks, handle, should_stop, running, response, ticks, ops, solo>>

EngineUpdate(time_step) ==
    /\ sims[1].paused \/ ticks < MaxTicks
    /\ LET r == update(sims[1], time_step)
       IN  /\ sims' = [sims EXCEPT ![1] = r.sim]
           /\ lastOp' = [name |-> "update", time_step |-> time_step, raised |-> r.raised]
    /\ ticks' = IF sims[1].paused THEN ticks ELSE ticks + 1
    /\ UNCHANGED <<manager, tasks, handle, should_stop, running, response, ops, solo>>

NextEngine ==
    \/ \E body \in EngineBodies : EngineAddBody(body)
    \/ \E paused \in BOOLEAN : EngineSetPaused(paused)
    \/ EngineCalculateNetForces
    \/ \E time_step \in EngineTimeSteps : EngineUpdate(time_step)

SpecEngine == InitEngine /\ [][NextEngine]_vars

\* the simulation the caller drives
Engine == sims[1]

\* the step is a call of update(time_step) on the driven engine
IsEngineUpdate == lastOp'.name = "update"

\* C1: update(dt) called while paused changes nothing: the bodies (position,
\* velocity, trail of each), the bodies sequence, G, time_step_display, the
\* paused flag and every other field of the simulation are the same before and
\* after the call, for every dt (negative, zero or positive).
C1_PausedUpdateNoMutation ==
    [][(IsEngineUpdate /\ Engine.paused) => (Engine' = Engine /\ ~lastOp'.raised)]_vars

\* a paused engine with two bodies that attract each other was just updated with dt < 0
C1_Witness ==
    /\ lastOp.name = "update"
    /\ lastOp.time_step < 0
    /\ Engine.paused
    /\ Len(Engine.bodies) = 2
    /\ \E i \in 1..2 : NetForceOn(Engine, i) # ZeroVector

\* C2: after an unpaused update(dt), every body's new position is its old
\* position plus dt times the velocity it has after the force of this same
\* step was applied.
C2_PositionUsesPostForceVelocity ==
    [][(IsEngineUpdate /\ ~Engine.paused /\ ~lastOp'.raised) =>
         /\ Len(Engine'.bodies) = Len(Engine.bodies)
         /\ \A i \in 1..Len(Engine.bodies) :
              Engine'.bodies[i].position =
                  VAdd[Engine.bodies[i].position,
                       VMul[Engine'.bodies[i].velocity, lastOp'.time_step]]]_vars

\* an unpaused update with dt # 0 has just changed the velocity and the position of a body
C2_Witness ==
    /\ lastOp.name = "update"
    /\ ~lastOp.raised
    /\ lastOp.time_step # 0
    /\ ~Engine.paused
    /\ \E i \in 1..Len(Engine.bodies) :
         /\ i \in DOMAIN Engine.net_forces
         /\ VMul[VMul[Engine.net_forces[i], FDiv(Scale, Engine.bodies[i].mass)],
                 lastOp.time_step] # ZeroVector
         /\ Len(Engine.bodies[i].trail) = 1

\* C3: after an unpaused update(dt), every body's velocity is its old velocity
\* changed by the net force computed from the positions all bodies had at
\* the start of the step, in whatever order the bodies were added.
C3_ForcesFromStartOfStep ==
    [][(IsEngineUpdate /\ ~Engine.paused /\ ~lastOp'.raised) =>
         \A i \in 1..Len(Engine.bodies) :
            /\ Engine'.net_forces[i] = NetForceOn(Engine, i)
            /\ Engine'.bodies[i].velocity =
                  apply_force(Engine.bodies[i], NetForceOn(Engine, i),
                              lastOp'.time_step).velocity]_vars

\* two bodies, the one added first being "b", have both been moved by a second update
C3_Witness ==
    /\ lastOp.name = "update"
    /\ ~lastOp.raised
    /\ lastOp.time_step > 0
    /\ ~Engine.paused
    /\ Len(Engine.bodies) = 2
    /\ Engine.bodies[1].id = "b"
    /\ \A i \in 1..2 : Engine.net_forces[i] # ZeroVector /\ Len(Engine.bodies[i].trail) = 2

----------------------------------------------------------------------------
(* SpecBody: one CelestialBody driven directly by its caller, as            *)
(* tests/unit/test_celestial_body.py drives it                              *)

SoloBodies ==
    { CelestialBody(10, Vector2D(0, 0), Vector2D(10, -20), 10, <<0, 0, 0>>, "a"),
      CelestialBody(20, Vector2D(30, 0), Vector2D(0, 0), 10, <<0, 0, 0>>, "b") }

SoloTimeSteps == {-10, 10}

InitBody ==
    /\ Quiet
    /\ sims = <<>>
    /\ manager = 0
    /\ \E body \in SoloBodies, time_step \in SoloTimeSteps :
          solo = [n |-> 0, body |-> body, time_step |-> time_step, positions |-> <<>>]

BodyUpdatePosition ==
    /\ solo.n < MaxCalls
    /\ solo' = [solo EXCEPT !.body = update_position(@, solo.time_step), !.n = @ + 1,
                             !.positions = Append(@, update_position(solo.body, solo.time_step).position)]
    /\ lastOp' = [name |-> "update_position"]
    /\ UNCHANGED <<sims, manager, tasks, handle, should_stop, running, response, ticks, ops>>

NextBody == BodyUpdatePosition

SpecBody == InitBody /\ [][NextBody]_vars

Min(a, b) == IF a < b THEN a ELSE b

\* C10: after n update_position calls on a body whose trail started empty,
\* len(trail) = min(n, max_trail_length), so it never exceeds max_trail_length
\* (50 by default).
C10_TrailLengthBounded ==
    /\ Len(solo.body.trail) <= solo.body.max_trail_length
    /\ Len(solo.body.trail) = Min(solo.n, solo.body.max_trail_length)

\* more calls than max_trail_length were made on a moving body: the trail is full
C10_Witness ==
    /\ solo.n > solo.body.max_trail_length
    /\ Len(solo.body.trail) = solo.body.max_trail_length
    /\ solo.body.velocity # ZeroVector

\* C11: after any sequence of update_position calls the trail is the sequence
\* of the most recent min(n, max_trail_length) positions the body had after
\* its moves, oldest first; its last entry is the current position; a call
\* changes no entry it keeps, and it drops the oldest entry only, after it
\* inserted the new one.
C11_TrailIsRecentPositions ==
    /\ [](LET trail == solo.body.trail
              n     == Len(solo.positions)
          IN  /\ Len(trail) = Min(n, solo.body.max_trail_length)
              /\ \A i \in 1..Len(trail) : trail[i] = solo.positions[n - Len(trail) + i]
              /\ Len(trail) > 0 => trail[Len(trail)] = solo.body.position)
    /\ [][LET inserted == Append(solo.body.trail, solo'.body.position)
          IN  solo'.body.trail =
                  IF Len(solo.body.trail) < solo.body.max_trail_length
                  THEN inserted ELSE Tail(inserted)]_vars

\* a moving body made more calls than max_trail_length: its first positions
\* are gone from the trail and the trail ends with where it is now
C11_Witness ==
    /\ solo.n > solo.body.max_trail_length + 1
    /\ solo.body.velocity # ZeroVector
    /\ solo.body.trail[1] = solo.positions[3]
    /\ solo.body.trail[1] # solo.positions[1]
    /\ solo.body.trail[Len(solo.body.trail)] = solo.body.position

----------------------------------------------------------------------------
(* SpecUnit: a caller that constructs a CelestialBody and calls its methods,  *)
(* as tests/unit/test_celestial_body.py does                                 *)

\* calls of apply_force and update_position explored per body
MaxSteps == 2

UnitMasses == {-10, 0, 70, 200}

UnitRadii == {-50, 0, 50}

UnitVelocities == {Vector2D(0, 0), Vector2D(10, -5)}

UnitForces == {Vector2D(50, 25), Vector2D(-30, 0)}

UnitTimeSteps == {-10, 0, 10}

InitUnit ==
    /\ Quiet
    /\ sims = <<>>
    /\ manager = 0
    /\ solo = NoBody

\* body = CelestialBody(...): when the constructor raises, the assignment
\* does not happen
UnitCreate(mass, velocity, radius) ==
    /\ lastOp' = [name |-> "CelestialBody", mass |-> mass, position |-> ZeroVector,
                  velocity |-> velocity, radius |-> radius, color |-> <<255, 255, 255>>,
                  id |-> "test_body_1", raised |-> CelestialBodyRaises(mass, radius)]
    /\ IF CelestialBodyRaises(mass, radius)
       THEN UNCHANGED solo
       ELSE solo' = [n |-> 0,
                     body |-> CelestialBody(mass, ZeroVector, velocity, radius,
                                            <<255, 255, 255>>, "test_body_1")]
    /\ UNCHANGED <<sims, manager, tasks, handle, should_stop, running, response, ticks, ops>>

\* body.mass = 0.0
UnitSetMassZero ==
    /\ "body" \in DOMAIN solo
    /\ solo.body.mass # 0
    /\ solo' = [solo EXCEPT !.body.mass = 0]
    /\ lastOp' = [name |-> "set_mass"]
    /\ UNCHANGED <<sims, manager, tasks, handle, should_stop, running, response, ticks, ops>>

UnitApplyForce(force, time_step) ==
    /\ "body" \in DOMAIN solo
    /\ solo.n < MaxSteps
    /\ solo' = [solo EXCEPT !.body = apply_force(@, force, time_step), !.n = @ + 1]
    /\ lastOp' = [name |-> "apply_force", force |-> force, time_step |-> time_step]
    /\ UNCHANGED <<sims, manager, tasks, handle, should_stop, running, response, ticks, ops>>

UnitUpdatePosition(time_step) ==
    /\ "body" \in DOMAIN solo
    /\ solo.n < MaxSteps
    /\ solo' = [solo EXCEPT !.body = update_position(@, time_step), !.n = @ + 1]
    /\ lastOp' = [name |-> "update_position", time_step |-> time_step]
    /\ UNCHANGED <<sims, manager, tasks, handle, should_stop, running, response, ticks, ops>>

NextUnit ==
    \/ \E mass \in UnitMasses, velocity \in UnitVelocities, radius \in UnitRadii :
          UnitCreate(mass, velocity, radius)
    \/ UnitSetMassZero
    \/ \E force \in UnitForces, time_step \in UnitTimeSteps : UnitApplyForce(force, time_step)
    \/ \E time_step \in UnitTimeSteps : UnitUpdatePosition(time_step)

SpecUnit == InitUnit /\ [][NextUnit]_vars

\* C12: creating a body with mass <= 0 or radius <= 0 raises to the caller and
\* no body results; with mass > 0 and radius > 0 the body has the given mass,
\* position, velocity, radius, color and id, and an empty trail.
C12_ConstructorValidates ==
    [][lastOp'.name = "CelestialBody" =>
         IF lastOp'.mass <= 0 \/ lastOp'.radius <= 0
         THEN lastOp'.raised /\ solo' = solo
         ELSE /\ ~lastOp'.raised
              /\ solo'.body.mass = lastOp'.mass
              /\ solo'.body.position = lastOp'.position
              /\ solo'.body.velocity = lastOp'.velocity
              /\ solo'.body.radius = lastOp'.radius
              /\ solo'.body.color = lastOp'.color
              /\ solo'.body.id = lastOp'.id
              /\ solo'.body.trail = <<>>]_vars

\* a constructor call with a mass of zero raised while a body built before,
\* and moved since, is still what the caller holds
C12_Witness ==
    /\ lastOp.name = "CelestialBody"
    /\ lastOp.mass = 0
    /\ lastOp.radius > 0
    /\ lastOp.raised
    /\ "body" \in DOMAIN solo
    /\ solo.body.mass > 0
    /\ Len(solo.body.trail) > 0

\* C13 as the specification words it: apply_force on a body of mass 0 changes
\* nothing, and on a body of mass m > 0 it changes the velocity by exactly
\* (force / m) * dt and leaves position and trail unchanged.
C13_ApplyForceExact ==
    [][lastOp'.name = "apply_force" =>
         IF solo.body.mass = 0
         THEN solo'.body = solo.body
         ELSE LET force == lastOp'.force
                  m     == solo.body.mass
              IN  solo'.body =
                      [solo.body EXCEPT !.velocity =
                          VAdd[@, VMul[Vector2D(FDiv(force.x, m), FDiv(force.y, m)),
                                       lastOp'.time_step]]]]_vars

\* C13: apply_force on a body of mass 0 changes nothing; on a body of mass
\* m > 0 it changes the velocity by (force * (1 / m)) * dt, each operation
\* rounded in that order, and leaves every other field unchanged.
C13_ApplyForceByReciprocal ==
    [][lastOp'.name = "apply_force" =>
         IF solo.body.mass = 0
         THEN solo'.body = solo.body
         ELSE solo'.body =
                  [solo.body EXCEPT !.velocity =
                      VAdd[@, VMul[VMul[lastOp'.force, FDiv(Scale, solo.body.mass)],
                                   lastOp'.time_step]]]]_vars

\* a force was applied to a moved body of mass m > 0 for which force * (1 / m)
\* and force / m round differently
C13_Witness ==
    /\ lastOp.name = "apply_force"
    /\ lastOp.time_step # 0
    /\ solo.body.mass > 0
    /\ Len(solo.body.trail) > 0
    /\ FMul(lastOp.force.x, FDiv(Scale, solo.body.mass)) # FDiv(lastOp.force.x, solo.body.mass)

-----------------------------------------------------------------------------
(* SpecPair: a GravitySimulation with the bodies and the parameters of        *)
(* tests/unit/test_gravity_simulation.py, driven directly by its caller       *)

\* the gravitational constants of the engine under test: 100.0 as in setUp,
\* 0.15, whose product with a mass is not on the grid, and the 0.0 of
\* test_update_no_force_single_body_moving
PairG == {100 * Scale, 3, 0}

\* softening: none (the tests' 1e-12, below the grid) and the default
PairEpsilons == {0, DefaultEpsilon}

\* body_at_origin and body_on_x_axis of setUp, a light body off the axis, a
\* second body that carries the id of body_at_origin, and a body so close to
\* the origin that the square of its distance is the smallest positive number
BodyAtOrigin ==
    CelestialBody(10 * Scale, Vector2D(0, 0), Vector2D(0, 0), Scale, <<255, 0, 0>>, "a")

BodyOnXAxis ==
    CelestialBody(20 * Scale, Vector2D(10 * Scale, 0), Vector2D(0, 0), Scale, <<0, 255, 0>>, "b")

PairBodies ==
    { BodyAtOrigin,
      BodyOnXAxis,
      CelestialBody(30, Vector2D(0, 40), Vector2D(20, 0), Scale, <<0, 0, 255>>, "c"),
      CelestialBody(10 * Scale, Vector2D(0, 10 * Scale), Vector2D(0, 0), Scale,
                    <<255, 0, 0>>, "a"),
      CelestialBody(Scale, Vector2D(4, 3), Vector2D(0, 0), Scale, <<0, 0, 0>>, "d") }

\* dt = 0.1, the step of the tests
PairTimeSteps == {Scale \div 10}

InitPair ==
    /\ Quiet
    /\ \E g \in PairG, epsilon \in PairEpsilons : sims = << GravitySimulation(g, epsilon) >>
    /\ manager = 0
    /\ solo = NoBody

NextPair ==
    \/ \E body \in PairBodies : EngineAddBody(body)
    \/ EngineCalculateNetForces
    \/ \E time_step \in PairTimeSteps : EngineUpdate(time_step)

SpecPair == InitPair /\ [][NextPair]_vars

\* the ids of the bodies of a simulation are pairwise distinct
DistinctIds(sim) ==
    \A i, j \in 1..Len(sim.bodies) : sim.bodies[i].id = sim.bodies[j].id => i = j

\* C14: add_body always appends: the count grows by one and the order is
\* kept, whether or not a body with the same id is already there. Two bodies
\* that share an id both stay in the list, each gets the net force of its own
\* position and mass, and an update steps each of them on its own.
C14_EngineAddBodyAppends ==
    /\ [][lastOp'.name = "add_body" =>
            /\ Len(Engine'.bodies) = Len(Engine.bodies) + 1
            /\ Engine'.bodies[Len(Engine'.bodies)] = lastOp'.body
            /\ \A i \in 1..Len(Engine.bodies) : Engine'.bodies[i] = Engine.bodies[i]]_vars
    /\ [][(lastOp'.name = "calculate_net_forces" /\ ~lastOp'.raised /\ ~DistinctIds(Engine)) =>
            /\ Len(Engine'.net_forces) = Len(Engine.bodies)
            /\ \A i \in 1..Len(Engine.bodies) : Engine'.net_forces[i] = NetForceOn(Engine, i)]_vars
    /\ [][(IsEngineUpdate /\ ~lastOp'.raised /\ ~DistinctIds(Engine)) =>
            /\ Len(Engine'.bodies) = Len(Engine.bodies)
            /\ \A i \in 1..Len(Engine.bodies) :
                 Engine'.bodies[i] =
                     update_position(apply_force(Engine.bodies[i], NetForceOn(Engine, i),
                                                 lastOp'.time_step),
                                     lastOp'.time_step)]_vars

\* two bodies with the id "a" were added at different places, and an update
\* has moved each of them by a force of its own
C14_Witness ==
    /\ lastOp.name = "update"
    /\ ~lastOp.raised
    /\ Len(Engine.bodies) = 2
    /\ Engine.bodies[1].id = Engine.bodies[2].id
    /\ Engine.net_forces[1] # ZeroVector
    /\ Engine.net_forces[1] # Engine.net_forces[2]
    /\ Engine.bodies[1].velocity # Engine.bodies[2].velocity
    /\ Len(Engine.bodies[1].trail) = 1 /\ Len(Engine.bodies[2].trail) = 1

\* the products G * m_a * m_b as the force on each of two bodies computes them
MassProduct(sim, body_a, body_b) ==
    FMul(FMul(sim.gravitational_constant, body_a.mass), body_b.mass)

\* the softened distance of two bodies
DistanceR(sim, body_a, body_b) ==
    LET delta_position == VSub[body_b.position, body_a.position]
    IN  FSqrt(FMul(delta_position.x, delta_position.x)
              + FMul(delta_position.y, delta_position.y) + sim.epsilon)

\* the unit vector from body_a to body_b
DirectionVec(sim, body_a, body_b) ==
    LET delta_position == VSub[body_b.position, body_a.position]
    IN  Vector2D(FDiv(delta_position.x, DistanceR(sim, body_a, body_b)),
                 FDiv(delta_position.y, DistanceR(sim, body_a, body_b)))

\* calculate_net_forces has just returned the forces of exactly two bodies
TwoBodyForces ==
    /\ lastOp.name = "calculate_net_forces"
    /\ ~lastOp.raised
    /\ Len(Engine.bodies) = 2

\* C19 as stated: with exactly two bodies the two forces are exactly
\* opposite, force_on_A = -force_on_B, for every input.
C19_ForcesExactlyOpposite ==
    TwoBodyForces =>
        Engine.net_forces[1] = Vector2D(-Engine.net_forces[2].x, -Engine.net_forces[2].y)

\* C19: with exactly two bodies the two forces point in exactly opposite
\* directions over the same distance; their magnitudes are (G * m_a) * m_b
\* and (G * m_b) * m_a over that distance squared, so the forces are exactly
\* opposite whenever these two rounded products are equal.
C19_ForcesOppositeUpToMassProduct ==
    TwoBodyForces =>
        LET a == Engine.bodies[1]
            b == Engine.bodies[2]
            r == DistanceR(Engine, a, b)
        IN  /\ DistanceR(Engine, b, a) = r
            /\ r # 0 =>
                 /\ DirectionVec(Engine, b, a) =
                        Vector2D(-DirectionVec(Engine, a, b).x, -DirectionVec(Engine, a, b).y)
                 /\ Engine.net_forces[1] =
                        VMul[DirectionVec(Engine, a, b),
                             FDiv(MassProduct(Engine, a, b), FMul(r, r))]
                 /\ Engine.net_forces[2] =
                        VMul[DirectionVec(Engine, b, a),
                             FDiv(MassProduct(Engine, b, a), FMul(r, r))]
            /\ MassProduct(Engine, a, b) = MassProduct(Engine, b, a) =>
                 Engine.net_forces[1] =
                     Vector2D(-Engine.net_forces[2].x, -Engine.net_forces[2].y)

\* the forces of two bodies of different mass whose mass products agree came
\* out exactly opposite and not zero, along a direction off the axes
C19_Witness ==
    /\ TwoBodyForces
    /\ Engine.bodies[1].mass # Engine.bodies[2].mass
    /\ MassProduct(Engine, Engine.bodies[1], Engine.bodies[2])
           = MassProduct(Engine, Engine.bodies[2], Engine.bodies[1])
    /\ Engine.net_forces[1].x # 0 /\ Engine.net_forces[1].y # 0
    /\ Engine.net_forces[1] = Vector2D(-Engine.net_forces[2].x, -Engine.net_forces[2].y)

\* the engine of the reference scenario: G = 100, no softening, A (mass 10 at
\* the origin) and B (mass 20 at (10, 0)) as constructed
ReferenceScenario(sim) ==
    /\ sim.gravitational_constant = 100 * Scale
    /\ sim.epsilon = 0
    /\ sim.bodies = << BodyAtOrigin, BodyOnXAxis >>

\* C20: in the reference scenario calculate_net_forces gives A the force
\* (200, 0) and B the force (-200, 0), and update(0.1) leaves A with velocity
\* (2.0, 0) at (0.2, 0) and B with velocity (-1.0, 0) at (9.9, 0). In general
\* the force on a from b has the magnitude G * m_a * m_b over the square of
\* the root of dx^2 + dy^2 + epsilon and points along b.position - a.position.
C20_ReferenceScenario ==
    /\ [][(lastOp'.name = "calculate_net_forces" /\ ReferenceScenario(Engine)) =>
            /\ ~lastOp'.raised
            /\ Engine'.net_forces = << Vector2D(200 * Scale, 0), Vector2D(-200 * Scale, 0) >>]_vars
    /\ [][(IsEngineUpdate /\ lastOp'.time_step * 10 = Scale /\ ReferenceScenario(Engine)) =>
            /\ ~lastOp'.raised
            /\ Engine'.bodies[1].velocity = Vector2D(2 * Scale, 0)
            /\ Engine'.bodies[1].position = Vector2D(Scale \div 5, 0)
            /\ Engine'.bodies[2].velocity = Vector2D(-Scale, 0)
            /\ Engine'.bodies[2].position = Vector2D((99 * Scale) \div 10, 0)]_vars
    /\ [][(lastOp'.name = "calculate_net_forces" /\ ~lastOp'.raised /\ Len(Engine.bodies) = 2) =>
            \A i \in 1..2 :
                LET a  == Engine.bodies[i]
                    b  == Engine.bodies[3 - i]
                    dx == b.position.x - a.position.x
                    dy == b.position.y - a.position.y
                    r  == DistanceR(Engine, a, b)
                    f  == Engine'.net_forces[i]
                IN  /\ r * r <= (FMul(dx, dx) + FMul(dy, dy) + Engine.epsilon) * Scale
                    /\ (FMul(dx, dx) + FMul(dy, dy) + Engine.epsilon) * Scale < (r + 1) * (r + 1)
                    /\ r # 0 =>
                         /\ f = VMul[Vector2D(FDiv(dx, r), FDiv(dy, r)),
                                     FDiv(FMul(FMul(Engine.gravitational_constant, a.mass), b.mass),
                                          FMul(r, r))]
                         /\ f.x * dx >= 0 /\ f.y * dy >= 0
                         /\ (dx = 0 => f.x = 0) /\ (dy = 0 => f.y = 0)]_vars

\* update(0.1) has just moved the two bodies of the reference scenario
C20_Witness ==
    /\ lastOp.name = "update"
    /\ ~lastOp.raised
    /\ Engine.gravitational_constant = 100 * Scale
    /\ Engine.epsilon = 0
    /\ Len(Engine.bodies) = 2
    /\ Engine.net_forces = << Vector2D(200 * Scale, 0), Vector2D(-200 * Scale, 0) >>
    /\ Engine.bodies[1].position = Vector2D(Scale \div 5, 0)
    /\ Engine.bodies[2].position = Vector2D((99 * Scale) \div 10, 0)
    /\ Len(Engine.bodies[1].trail) = 1

\* C21: when the net force on a body is zero, as it is for a single body and
\* for G = 0, an unpaused update(dt) leaves its velocity unchanged and moves
\* its position by dt times that velocity.
C21_ZeroForceUniformMotion ==
    [][(IsEngineUpdate /\ ~Engine.paused /\ ~lastOp'.raised) =>
         /\ (Len(Engine.bodies) = 1 \/ Engine.gravitational_constant = 0) =>
               \A i \in 1..Len(Engine.bodies) : Engine'.net_forces[i] = ZeroVector
         /\ \A i \in 1..Len(Engine.bodies) :
               Engine'.net_forces[i] = ZeroVector =>
                  /\ Engine'.bodies[i].velocity = Engine.bodies[i].velocity
                  /\ Engine'.bodies[i].position =
                         Vector2D(Engine.bodies[i].position.x
                                      + FMul(Engine.bodies[i].velocity.x, lastOp'.time_step),
                                  Engine.bodies[i].position.y
                                      + FMul(Engine.bodies[i].velocity.y, lastOp'.time_step))]_vars

\* with G = 0, a moving body beside another one has been moved twice, each
\* time by the velocity it was constructed with
C21_Witness ==
    /\ lastOp.name = "update"
    /\ ~lastOp.raised
    /\ Engine.gravitational_constant = 0
    /\ Len(Engine.bodies) = 2
    /\ \E i \in 1..2 :
         /\ Engine.bodies[i].velocity # ZeroVector
         /\ Len(Engine.bodies[i].trail) = 2
         /\ Engine.bodies[i].trail[2] = Engine.bodies[i].position
         /\ Engine.bodies[i].position.x - Engine.bodies[i].trail[1].x
                = FMul(Engine.bodies[i].velocity.x, lastOp.time_step)
         /\ Engine.bodies[i].position # Engine.bodies[i].trail[1]

\* C22: calculate_net_forces changes no body and no parameter of the
\* simulation (only the forces it stores), and a second call on the state the
\* first one left returns the same forces.
C22_CalculateNetForcesIdempotent ==
    /\ [][lastOp'.name = "calculate_net_forces" =>
            /\ Engine'.bodies = Engine.bodies
            /\ Engine'.gravitational_constant = Engine.gravitational_constant
            /\ Engine'.epsilon = Engine.epsilon
            /\ Engine'.paused = Engine.paused
            /\ Engine'.time_step_display = Engine.time_step_display]_vars
    /\ [](lastOp.name = "calculate_net_forces" =>
            /\ calculate_net_forces(Engine).raised = lastOp.raised
            /\ calculate_net_forces(Engine).forces = lastOp.returned)

\* calculate_net_forces has returned the forces, not zero, of two bodies that
\* an update had moved before
C22_Witness ==
    /\ lastOp.name = "calculate_net_forces"
    /\ ~lastOp.raised
    /\ Len(Engine.bodies) = 2
    /\ lastOp.returned[1] # ZeroVector
    /\ lastOp.returned[2] # ZeroVector
    /\ Len(Engine.bodies[1].trail) > 0

C31_UpdateFrame ==
    [][(IsEngineUpdate /\ ~Engine.paused) =>
         /\ Len(Engine'.bodies) = Len(Engine.bodies)
         /\ \A i \in 1..Len(Engine.bodies) :
               /\ Engine'.bodies[i].id = Engine.bodies[i].id
               /\ Engine'.bodies[i].mass = Engine.bodies[i].mass
               /\ Engine'.bodies[i].radius = Engine.bodies[i].radius
               /\ Engine'.bodies[i].color = Engine.bodies[i].color
               /\ Engine'.bodies[i].max_trail_length = Engine.bodies[i].max_trail_length
         /\ Engine'.gravitational_constant = Engine.gravitational_constant
         /\ Engine'.epsilon = Engine.epsilon
         /\ Engine'.paused = Engine.paused
         /\ Engine'.time_step_display = Engine.time_step_display]_vars

\* an update has moved two bodies of different id, mass and color that
\* attract each other
C31_Witness ==
    /\ lastOp.name = "update"
    /\ ~lastOp.raised
    /\ Len(Engine.bodies) = 2
    /\ Engine.bodies[1].id # Engine.bodies[2].id
    /\ Engine.bodies[1].mass # Engine.bodies[2].mass
    /\ Engine.bodies[1].color # Engine.bodies[2].color
    /\ Engine.net_forces[1] # ZeroVector
    /\ Engine.bodies[1].velocity # ZeroVector
    /\ Len(Engine.bodies[1].trail) = 1
    /\ Len(Engine.bodies[2].trail) = 1

-----------------------------------------------------------------------------
(* SpecVectors: Vector2D objects with their identity.  heap is the sequence  *)
(* of the Vector2D objects constructed so far and a reference is an index   *)
(* into it; the caller keeps its references to the three vectors it         *)
(* constructed (1, 2, 3) and hands them to a CelestialBody and its methods  *)

\* number of Vector2D operations the caller performs itself
MaxVecOps == 1

\* the vectors the caller constructs: a position, a velocity, a force
CallerPositions == {Vector2D(0, 0), Vector2D(60, 80)}

CallerVelocities == {Vector2D(4, 3), Vector2D(-40, 0)}

CallerForces == {Vector2D(6000, 0), Vector2D(60, -80)}

\* scalars of v * scalar and scalar * v
VecScalars == {-Scale, 0, 3 * Scale}

\* the one mass and the one time step of the body under test
VecMass == 2 * Scale

VecTimeStep == Scale \div 2

\* Vector2D(x, y): a new object at the end of the heap
Allocate(heap, v) == Append(heap, v)

\* the reference of the object Allocate adds
NewRef(heap) == Len(heap) + 1

InitVectors ==
    /\ Quiet
    /\ sims = <<>>
    /\ manager = 0
    /\ \E position \in CallerPositions, velocity \in CallerVelocities, force \in CallerForces :
          solo = [n |-> 0, heap |-> << position, velocity, force >>,
                  caller |-> << position, velocity, force >>]

\* the caller evaluates a + b or a - b
VecBinary(name, a, b) ==
    /\ solo.n < MaxVecOps
    /\ solo' = [solo EXCEPT !.n = @ + 1,
                            !.heap = Allocate(@, IF name = "__add__"
                                                 THEN VAdd[solo.heap[a], solo.heap[b]]
                                                 ELSE VSub[solo.heap[a], solo.heap[b]])]
    /\ lastOp' = [name |-> name, operands |-> <<a, b>>, result |-> NewRef(solo.heap),
                  raised |-> FALSE]
    /\ UNCHANGED <<sims, manager, tasks, handle, should_stop, running, response, ticks, ops>>

\* the caller evaluates a * scalar (__mul__) or scalar * a (__rmul__)
VecScale(name, a, scalar) ==
    /\ solo.n < MaxVecOps
    /\ solo' = [solo EXCEPT !.n = @ + 1, !.heap = Allocate(@, VMul[solo.heap[a], scalar])]
    /\ lastOp' = [name |-> name, operands |-> <<a>>, scalar |-> scalar,
                  result |-> NewRef(solo.heap), raised |-> FALSE]
    /\ UNCHANGED <<sims, manager, tasks, handle, should_stop, running, response, ticks, ops>>

\* the caller evaluates a.normalize(): when magnitude raises, no object is made
VecNormalize(a) ==
    /\ solo.n < MaxVecOps
    /\ IF MagnitudeRaises(solo.heap[a])
       THEN /\ solo' = [solo EXCEPT !.n = @ + 1]
            /\ lastOp' = [name |-> "normalize", operands |-> <<a>>, result |-> 0, raised |-> TRUE]
       ELSE /\ solo' = [solo EXCEPT !.n = @ + 1, !.heap = Allocate(@, normalize(solo.heap[a]))]
            /\ lastOp' = [name |-> "normalize", operands |-> <<a>>,
                          result |-> NewRef(solo.heap), raised |-> FALSE]
    /\ UNCHANGED <<sims, manager, tasks, handle, should_stop, running, response, ticks, ops>>

\* the caller evaluates a.copy()
VecCopy(a) ==
    /\ solo.n < MaxVecOps
    /\ solo' = [solo EXCEPT !.n = @ + 1, !.heap = Allocate(@, copy(solo.heap[a]))]
    /\ lastOp' = [name |-> "copy", operands |-> <<a>>, result |-> NewRef(solo.heap),
                  raised |-> FALSE]
    /\ UNCHANGED <<sims, manager, tasks, handle, should_stop, running, response, ticks, ops>>

\* CelestialBody(mass, position, velocity, ...): the body keeps the two
\* objects it was given, not copies of them
RefCreate ==
    /\ "body" \notin DOMAIN solo
    /\ solo' = [n |-> solo.n, heap |-> solo.heap, caller |-> solo.caller,
                body |-> [mass |-> VecMass, position |-> 1, velocity |-> 2, trail |-> <<>>,
                          max_trail_length |-> DefaultMaxTrailLength, forced |-> FALSE]]
    /\ lastOp' = [name |-> "CelestialBody"]
    /\ UNCHANGED <<sims, manager, tasks, handle, should_stop, running, response, ticks, ops>>

\* self.velocity += acceleration * time_step with an in-place addition: the
\* object self.velocity refers to is changed
VelocityPlusEquals_in_place(heap, body, force, time_step) ==
    LET acceleration == VMul[heap[force], FDiv(Scale, body.mass)]
    IN  [heap |-> [heap EXCEPT ![body.velocity] = VAdd[@, VMul[acceleration, time_step]]],
         velocity |-> body.velocity]

\* self.velocity += acceleration * time_step: Vector2D has no __iadd__, so
\* the sum is a new object and self.velocity is bound to it
VelocityPlusEquals(heap, body, force, time_step) ==
    LET acceleration == VMul[heap[force], FDiv(Scale, body.mass)]
    IN  [heap |-> Allocate(heap, VAdd[heap[body.velocity], VMul[acceleration, time_step]]),
         velocity |-> NewRef(heap)]

\* body.apply_force(force, time_step) with the force object of the caller
RefApplyForce ==
    /\ "body" \in DOMAIN solo
    /\ ~solo.body.forced
    /\ LET r == VelocityPlusEquals(solo.heap, solo.body, 3, VecTimeStep)
       IN  solo' = [solo EXCEPT !.heap = r.heap, !.body.velocity = r.velocity,
                                !.body.forced = TRUE]
    /\ lastOp' = [name |-> "apply_force"]
    /\ UNCHANGED <<sims, manager, tasks, handle, should_stop, running, response, ticks, ops>>

\* body.update_position(time_step): the sum is a new object, and the trail
\* gets a copy of it
RefUpdatePosition ==
    /\ "body" \in DOMAIN solo
    /\ Len(solo.body.trail) < MaxSteps
    /\ LET moved    == Allocate(solo.heap, VAdd[solo.heap[solo.body.position],
                                                 VMul[solo.heap[solo.body.velocity], VecTimeStep]])
           position == NewRef(solo.heap)
           copied   == Allocate(moved, copy(moved[position]))
           inserted == Append(solo.body.trail, NewRef(moved))
       IN  solo' = [solo EXCEPT !.heap = copied,
                                !.body.position = position,
                                !.body.trail = IF TrailTooLong(inserted, solo.body.max_trail_length)
                                               THEN Tail(inserted) ELSE inserted]
    /\ lastOp' = [name |-> "update_position"]
    /\ UNCHANGED <<sims, manager, tasks, handle, should_stop, running, response, ticks, ops>>

NextVectors ==
    \/ \E name \in {"__add__", "__sub__"}, a, b \in DOMAIN solo.heap : VecBinary(name, a, b)
    \/ \E name \in {"__mul__", "__rmul__"}, a \in DOMAIN solo.heap, scalar \in VecScalars :
          VecScale(name, a, scalar)
    \/ \E a \in DOMAIN solo.heap : VecNormalize(a)
    \/ \E a \in DOMAIN solo.heap : VecCopy(a)
    \/ RefCreate
    \/ RefApplyForce
    \/ RefUpdatePosition

SpecVectors == InitVectors /\ [][NextVectors]_vars

\* the step is a Vector2D operation of the caller that returned
IsVecOp(names) == lastOp' # lastOp /\ lastOp'.name \in names /\ ~lastOp'.raised

\* C24: add, subtract, scalar multiply in either operand order, normalize and
\* copy each return a new Vector2D object and change no existing one;
\* apply_force and update_position change no existing Vector2D object
\* either, so the position, velocity and force objects of the caller keep
\* the values they were constructed with.
C24_VectorValueSemantics ==
    /\ [][/\ Len(solo'.heap) >= Len(solo.heap)
          /\ \A r \in DOMAIN solo.heap : solo'.heap[r] = solo.heap[r]]_vars
    /\ [][IsVecOp({"__add__", "__sub__", "__mul__", "__rmul__", "normalize", "copy"}) =>
            /\ lastOp'.result \notin DOMAIN solo.heap
            /\ lastOp'.result \in DOMAIN solo'.heap
            /\ LET a == solo.heap[lastOp'.operands[1]]
                   v == solo'.heap[lastOp'.result]
               IN  /\ lastOp'.name = "__add__" =>
                         v = Vector2D(a.x + solo.heap[lastOp'.operands[2]].x,
                                      a.y + solo.heap[lastOp'.operands[2]].y)
                   /\ lastOp'.name = "__sub__" =>
                         v = Vector2D(a.x - solo.heap[lastOp'.operands[2]].x,
                                      a.y - solo.heap[lastOp'.operands[2]].y)
                   /\ lastOp'.name \in {"__mul__", "__rmul__"} =>
                         v = Vector2D(FMul(a.x, lastOp'.scalar), FMul(a.y, lastOp'.scalar))
                   /\ lastOp'.name = "copy" => v = a]_vars
    /\ [](\A r \in 1..3 : solo.heap[r] = solo.caller[r])

\* the body was constructed on the position and velocity objects of the
\* caller, the force object of the caller was applied and the body has
\* moved: its position and velocity are other objects with other values
C24_Witness ==
    /\ lastOp.name = "update_position"
    /\ "body" \in DOMAIN solo
    /\ solo.body.forced
    /\ solo.body.position # 1
    /\ solo.body.velocity # 2
    /\ solo.heap[solo.body.position] # solo.heap[1]
    /\ solo.heap[solo.body.velocity] # solo.heap[2]
    /\ solo.heap[1] = solo.caller[1]
    /\ solo.heap[2] = solo.caller[2]
    /\ solo.heap[3] = solo.caller[3]
    /\ Len(solo.body.trail) = 1
    /\ solo.body.trail[1] # solo.body.position
    /\ solo.heap[solo.body.trail[1]] = solo.heap[solo.body.position]

\* C25: normalize returns the zero vector, without an error, when the
\* magnitude is zero; otherwise it returns a vector of magnitude 1 (to the
\* resolution of the numbers) that points in the direction of v.
C25_NormalizeUnitVector ==
    [][(lastOp' # lastOp /\ lastOp'.name = "normalize") =>
         LET v == solo.heap[lastOp'.operands[1]]
         IN  /\ ~lastOp'.raised
             /\ LET n == solo'.heap[lastOp'.result]
                IN  IF magnitude(v) = 0
                    THEN n = ZeroVector
                    ELSE /\ magnitude(n) \in (Scale - 1)..(Scale + 1)
                         /\ n.x * v.x >= 0 /\ n.y * v.y >= 0
                         /\ (v.x = 0 => n.x = 0) /\ (v.y = 0 => n.y = 0)]_vars

-----------------------------------------------------------------------------
(* SpecKeys: the interactive controller. A SimulationService holds its own   *)
(* time_step beside the simulation, InputHandler.handle_input changes both   *)
(* on key events, and every frame of run_simulation_loop calls update and    *)
(* copies time_step to time_step_display. The time step of the service is   *)
(* counted in thousandths, the unit of its clamp 0.001.                      *)

\* number of key events the user sends
MaxKeys == 4

\* thousandths in one unit of time
PerMille == 1000

\* the lower clamp of K_LEFT: 0.001
MinTimeStep == 1

\* the step of K_LEFT and K_RIGHT: 0.005
TimeStepNudge == 5

\* the step of K_UP and K_DOWN: 10.0
GNudge == 10 * Scale

\* the gravitational constants and time steps the service is constructed
\* with: at the clamps, less than one nudge above them, and those of main.py
KeyG == {0, 5 * Scale, 100 * Scale}

KeyTimeSteps == {MinTimeStep, 3, 10}

Max(a, b) == IF a > b THEN a ELSE b

\* K_DOWN: max(0.0, G - 10.0)
NudgeDownG(g) == Max(0, g - GNudge)

\* K_LEFT without its clamp
NudgeLeftTimeStep_unclamped(time_step) == time_step - TimeStepNudge

\* K_LEFT: max(0.001, time_step - 0.005)
NudgeLeftTimeStep(time_step) == Max(MinTimeStep, time_step - TimeStepNudge)

\* the time step of the service as a number of the grid of the simulation
GridTimeStep(time_step) == RDiv[time_step * Scale, PerMille]

\* SimulationService.__init__: the simulation with its first bodies, and
\* time_step_display set to the time step of the service
InitKeys ==
    /\ Quiet
    /\ manager = 0
    /\ \E g \in KeyG, time_step \in KeyTimeSteps :
          /\ sims = << [add_body(add_body(GravitySimulation(g, DefaultEpsilon), BodyAtOrigin),
                                 BodyOnXAxis)
                           EXCEPT !.time_step_display = time_step] >>
          /\ solo = [n |-> 0, time_step |-> time_step, running |-> TRUE,
                     start |-> [gravitational_constant |-> g, time_step |-> time_step]]

\* handle_input is called with a KEYDOWN event
KeyEvent(key) ==
    /\ solo.running
    /\ ops < MaxKeys
    /\ ops' = ops + 1
    /\ lastOp' = [name |-> "key", key |-> key]
    /\ UNCHANGED <<manager, tasks, handle, should_stop, running, response, ticks>>

KeySpace ==
    /\ KeyEvent("K_SPACE")
    /\ sims' = [sims EXCEPT ![1].paused = ~@]
    /\ UNCHANGED solo

KeyUp ==
    /\ KeyEvent("K_UP")
    /\ sims' = [sims EXCEPT ![1].gravitational_constant = @ + GNudge]
    /\ UNCHANGED solo

KeyDown ==
    /\ KeyEvent("K_DOWN")
    /\ sims' = [sims EXCEPT ![1].gravitational_constant = NudgeDownG(@)]
    /\ UNCHANGED solo

KeyLeft ==
    /\ KeyEvent("K_LEFT")
    /\ solo' = [solo EXCEPT !.time_step = NudgeLeftTimeStep(@)]
    /\ sims' = [sims EXCEPT ![1].time_step_display = solo'.time_step]

KeyRight ==
    /\ KeyEvent("K_RIGHT")
    /\ solo' = [solo EXCEPT !.time_step = @ + TimeStepNudge]
    /\ sims' = [sims EXCEPT ![1].time_step_display = solo'.time_step]

\* the rest of a frame of run_simulation_loop: update, whose exception ends
\* the loop, then the copy of the time step
Frame ==
    /\ solo.running
    /\ sims[1].paused \/ ticks < MaxTicks
    /\ LET r == update(sims[1], GridTimeStep(solo.time_step))
       IN  /\ IF r.raised
              THEN /\ sims' = [sims EXCEPT ![1] = r.sim]
                   /\ solo' = [solo EXCEPT !.running = FALSE]
              ELSE /\ sims' = [sims EXCEPT ![1] =
                                  [r.sim EXCEPT !.time_step_display = solo.time_step]]
                   /\ UNCHANGED solo
           /\ lastOp' = [name |-> "frame", raised |-> r.raised]
    /\ ticks' = IF sims[1].paused THEN ticks ELSE ticks + 1
    /\ UNCHANGED <<manager, tasks, handle, should_stop, running, response, ops>>

NextKeys ==
    \/ KeySpace
    \/ KeyUp
    \/ KeyDown
    \/ KeyLeft
    \/ KeyRight
    \/ Frame

SpecKeys == InitKeys /\ [][NextKeys]_vars

\* C36: in the interactive controller, whatever key events follow a start
\* with G >= 0 and time_step >= 0.001, gravitational_constant stays >= 0 and
\* the time step of the service stays >= 0.001, and after every K_LEFT and
\* K_RIGHT event time_step_display is the time step of the service.
C36_KeysKeepParametersInRange ==
    /\ [](sims[1].gravitational_constant >= 0 /\ solo.time_step >= MinTimeStep)
    /\ [][(ops' = ops + 1 /\ lastOp'.key \in {"K_LEFT", "K_RIGHT"}) =>
             sims'[1].time_step_display = solo'.time_step]_vars
    /\ [][(ops' = ops + 1 /\ lastOp'.key = "K_DOWN"
               /\ sims[1].gravitational_constant < GNudge) =>
             sims'[1].gravitational_constant = 0]_vars
    /\ [][(ops' = ops + 1 /\ lastOp'.key = "K_LEFT"
               /\ solo.time_step < MinTimeStep + TimeStepNudge) =>
             solo'.time_step = MinTimeStep]_vars

\* K_DOWN and K_LEFT have both clamped a value that was less than one step
\* above its bound
C36_Witness ==
    /\ lastOp.name = "key"
    /\ lastOp.key = "K_LEFT"
    /\ solo.start.gravitational_constant = 5 * Scale
    /\ solo.start.time_step = 3
    /\ sims[1].gravitational_constant = 0
    /\ solo.time_step = MinTimeStep
    /\ sims[1].time_step_display = MinTimeStep
    /\ ops = 2

----------------------------------------------------------------------------
(* SimulationManager *)

\* DEFAULT_G = 100.0 and DEFAULT_TIME_STEP = 0.01, scaled to the model's grid
DEFAULT_G == 10

DEFAULT_TIME_STEP == 1

\* sun, earth and moon of _initialize_default_bodies, scaled to the model's grid
DefaultBodies ==
    << CelestialBody(200, Vector2D(80, 60), Vector2D(0, 0), 20, <<255, 255, 0>>, "sun"),
       CelestialBody(60, Vector2D(80, 100), Vector2D(15, 0), 7, <<0, 100, 255>>, "earth"),
       CelestialBody(10, Vector2D(80, 104), Vector2D(17, 0), 3, <<128, 128, 128>>, "moon") >>

\* _initialize_default_bodies on the manager's simulation: clear, then three add_body
initialize_default_bodies(sim) ==
    add_body(add_body(add_body([sim EXCEPT !.bodies = <<>>],
                               DefaultBodies[1]), DefaultBodies[2]), DefaultBodies[3])

\* a manager whose new simulation is paused
ManagedSimulation_paused(gravitational_constant, time_step) ==
    initialize_default_bodies(
        [GravitySimulation(gravitational_constant, DefaultEpsilon)
            EXCEPT !.time_step_display = time_step, !.paused = TRUE])

\* the GravitySimulation object that __init__ and reset_simulation create
ManagedSimulation(gravitational_constant, time_step) ==
    initialize_default_bodies(
        [GravitySimulation(gravitational_constant, DefaultEpsilon)
            EXCEPT !.time_step_display = time_step])

\* a fallback that takes a missing value for zero
ValueOr_zero(optional, default) == IF optional = {} THEN 0 ELSE CHOOSE v \in optional : TRUE

\* an Optional[float] is the empty set (None) or the set of its value
None == {}

Some(v) == {v}

ValueOr(optional, default) == IF optional = None THEN default ELSE CHOOSE v \in optional : TRUE

\* SimulationManager().get_simulation_instance()
get_simulation_instance == sims[manager]

----------------------------------------------------------------------------
(* The background loop of tasks.py, run by the asyncio event loop *)

\* a task as loop.create_task leaves it: its state, where its coroutine stands,
\* and the coroutine's locals (simulation; inside update: the forces computed
\* so far, the loop index, the time_step argument).  entry records the
\* simulation as update found it, for the properties below.
NewTask == [state |-> "pending", pc |-> "start", simulation |-> 0,
            forces |-> <<>>, i |-> 0, time_step |-> 0, entry |-> [bodies |-> <<>>]]

\* a loop that would also await between the phases of update
SuspensionPoints_with_apply == {"sleep", "apply"}

\* the places where _run_simulation_update_loop awaits
SuspensionPoints == {"sleep"}

\* a start that takes a loop that was told to stop for a loop that has ended
TaskAlreadyRunning_unless_stopping ==
    handle # 0 /\ tasks[handle].state = "pending" /\ ~should_stop

\* a start that does not look at the task it created before
TaskAlreadyRunning_never == FALSE

\* the guard of start_simulation_loop_task
TaskAlreadyRunning == handle # 0 /\ tasks[handle].state = "pending"

\* a loop that does not read the stop flag
LoopShouldExit_never == FALSE

\* the negation of the while condition
LoopShouldExit == should_stop

\* a loop that ticks a paused simulation too
SimulationPaused_never(sim) == FALSE

\* the pause test of the loop, which update repeats at its top
SimulationPaused(sim) == sim.paused

\* the event loop can run task t now: t holds the thread, or the thread is
\* free and t is ready (created and not started yet, or suspended in an await)
Runnable(t) ==
    /\ tasks[t].state = "pending"
    /\ \/ running = t
       \/ running = 0 /\ tasks[t].pc \in SuspensionPoints \cup {"start"}

\* who holds the thread after t's step took it to pc
Holder(t, pc) == IF pc \in SuspensionPoints \cup {"done"} THEN 0 ELSE t

start_simulation_loop_task ==
    /\ running = 0
    /\ IF TaskAlreadyRunning
       THEN /\ lastOp' = [name |-> "start_simulation_loop_task", created |-> FALSE]
            /\ UNCHANGED <<tasks, handle, should_stop>>
       ELSE /\ Len(tasks) < MaxTasks
            /\ should_stop' = FALSE
            /\ tasks' = Append(tasks, NewTask)
            /\ handle' = Len(tasks) + 1
            /\ lastOp' = [name |-> "start_simulation_loop_task", created |-> TRUE]
    /\ UNCHANGED <<sims, manager, running, response, ticks, ops, solo>>

stop_simulation_loop_task ==
    /\ running = 0
    /\ IF handle = 0 \/ tasks[handle].state # "pending"
       THEN /\ lastOp' = [name |-> "stop_simulation_loop_task", signalled |-> FALSE]
            /\ UNCHANGED should_stop
       ELSE /\ should_stop' = TRUE
            /\ lastOp' = [name |-> "stop_simulation_loop_task", signalled |-> TRUE]
    /\ UNCHANGED <<sims, manager, tasks, handle, running, response, ticks, ops, solo>>

\* one pass through the head of the loop for the task's simulation s: the
\* while test, the pause test, and the call of update up to its own pause test
LoopIterate(t, s) ==
    /\ LoopShouldExit \/ SimulationPaused(sims[s]) \/ ticks < MaxTicks
    /\ IF LoopShouldExit
       THEN /\ tasks' = [tasks EXCEPT ![t] = [NewTask EXCEPT !.state = "finished", !.pc = "done"]]
            /\ running' = 0
            /\ UNCHANGED ticks
       ELSE IF SimulationPaused(sims[s])
       THEN /\ tasks' = [tasks EXCEPT ![t] = [NewTask EXCEPT !.pc = "sleep", !.simulation = s]]
            /\ running' = Holder(t, "sleep")
            /\ UNCHANGED ticks
       ELSE /\ tasks' = [tasks EXCEPT ![t] =
                            [NewTask EXCEPT !.pc = "forces", !.simulation = s, !.i = 1,
                                            !.time_step = sims[s].time_step_display,
                                            !.entry = sims[s]]]
            /\ running' = Holder(t, "forces")
            /\ ticks' = ticks + 1
    /\ UNCHANGED <<sims, manager, handle, should_stop, response, lastOp, ops, solo>>

\* the coroutine runs for the first time: it takes the manager's simulation
LoopStart(t) ==
    /\ Runnable(t)
    /\ tasks[t].pc = "start"
    /\ LoopIterate(t, manager)

\* asyncio.sleep returns
LoopWake(t) ==
    /\ Runnable(t)
    /\ tasks[t].pc = "sleep"
    /\ LoopIterate(t, tasks[t].simulation)

\* asyncio.sleep raises CancelledError: the task was cancelled from outside
LoopCancelled(t) ==
    /\ running = 0
    /\ tasks[t].state = "pending"
    /\ tasks[t].pc = "sleep"
    /\ should_stop' = TRUE
    /\ tasks' = [tasks EXCEPT ![t] = [NewTask EXCEPT !.state = "finished", !.pc = "done"]]
    /\ UNCHANGED <<sims, manager, handle, running, response, lastOp, ticks, ops, solo>>

\* calculate_net_forces inside update: one iteration of its outer loop, or its end
TickForces(t) ==
    LET s == tasks[t].simulation
        i == tasks[t].i
    IN  /\ Runnable(t)
        /\ tasks[t].pc = "forces"
        /\ IF i > Len(sims[s].bodies)
           THEN /\ sims' = [sims EXCEPT ![s].net_forces = tasks[t].forces]
                /\ tasks' = [tasks EXCEPT ![t].pc = "apply", ![t].i = 1]
                /\ running' = Holder(t, "apply")
           ELSE IF NetForceRaises(sims[s], i)
           THEN /\ tasks' = [tasks EXCEPT ![t] = [NewTask EXCEPT !.state = "failed", !.pc = "done",
                                                                !.entry = tasks[t].entry]]
                /\ running' = 0
                /\ UNCHANGED sims
           ELSE /\ tasks' = [tasks EXCEPT ![t].forces = Append(@, NetForceOn(sims[s], i)),
                                          ![t].i = i + 1]
                /\ running' = Holder(t, "forces")
                /\ UNCHANGED sims
        /\ UNCHANGED <<manager, handle, should_stop, response, lastOp, ticks, ops, solo>>

\* the first loop of update: apply_force on the next body, or the end of the loop
TickApply(t) ==
    LET s == tasks[t].simulation
        i == tasks[t].i
    IN  /\ Runnable(t)
        /\ tasks[t].pc = "apply"
        /\ IF i > Len(sims[s].bodies)
           THEN /\ tasks' = [tasks EXCEPT ![t].pc = "position", ![t].i = 1]
                /\ running' = Holder(t, "position")
                /\ UNCHANGED sims
           ELSE /\ sims' = [sims EXCEPT ![s].bodies[i] =
                               apply_force(@, ForceOf(tasks[t].forces, i), tasks[t].time_step)]
                /\ tasks' = [tasks EXCEPT ![t].i = i + 1]
                /\ running' = Holder(t, "apply")
        /\ UNCHANGED <<manager, handle, should_stop, response, lastOp, ticks, ops, solo>>

\* the second loop of update: update_position on the next body, or the end of
\* the loop, after which the task awaits asyncio.sleep
TickPosition(t) ==
    LET s == tasks[t].simulation
        i == tasks[t].i
    IN  /\ Runnable(t)
        /\ tasks[t].pc = "position"
        /\ IF i > Len(sims[s].bodies)
           THEN /\ tasks' = [tasks EXCEPT ![t] = [NewTask EXCEPT !.pc = "sleep", !.simulation = s]]
                /\ running' = Holder(t, "sleep")
                /\ UNCHANGED sims
           ELSE /\ sims' = [sims EXCEPT ![s].bodies[i] = update_position(@, tasks[t].time_step)]
                /\ tasks' = [tasks EXCEPT ![t].i = i + 1]
                /\ running' = Holder(t, "position")
        /\ UNCHANGED <<manager, handle, should_stop, response, lastOp, ticks, ops, solo>>

\* a step of the background loop itself
LoopStep(t) ==
    \/ LoopStart(t)
    \/ LoopWake(t)
    \/ TickForces(t)
    \/ TickApply(t)
    \/ TickPosition(t)

----------------------------------------------------------------------------
(* The control API of main_api.py: every handler is an async def without an  *)
(* await, so the event loop runs it from its first line to its return        *)

SimulationStatusResponse(sim_instance) ==
    [code |-> 200,
     is_paused |-> sim_instance.paused,
     gravitational_constant |-> sim_instance.gravitational_constant,
     time_step |-> sim_instance.time_step_display,
     num_bodies |-> Len(sim_instance.bodies)]

\* bodies of POST /simulation/start_reset: no body, or new parameters
ResetRequests ==
    { None, Some([gravitational_constant |-> Some(20), time_step |-> None]) }

\* bodies of PUT /simulation/parameters that pass the schema (G >= 0, time_step > 0)
ParameterRequests ==
    { [gravitational_constant |-> Some(20), time_step |-> None],
      [gravitational_constant |-> None, time_step |-> Some(2)] }

\* bodies of POST /simulation/bodies: a new body, an id in use, a mass of zero,
\* and a body whose distance to the others is beyond the range of ** 2
AddBodyRequests ==
    { [id |-> "mars", mass |-> 10, position |-> Vector2D(60, 60), velocity |-> Vector2D(0, 10),
       radius |-> 5, color |-> <<200, 200, 200>>],
      [id |-> "sun", mass |-> 10, position |-> Vector2D(60, 60), velocity |-> Vector2D(0, 10),
       radius |-> 5, color |-> <<200, 200, 200>>],
      [id |-> "dust", mass |-> 0, position |-> Vector2D(60, 60), velocity |-> Vector2D(0, 10),
       radius |-> 5, color |-> <<200, 200, 200>>],
      [id |-> "far", mass |-> 10, position |-> Vector2D(1000, 60), velocity |-> Vector2D(0, 0),
       radius |-> 5, color |-> <<200, 200, 200>>] }

\* bodies of PUT /simulation/parameters that fail the schema: a negative G
\* beside a valid time_step, a time_step of zero beside a valid G, a negative
\* time_step alone
InvalidParameterRequests ==
    { [gravitational_constant |-> Some(-20), time_step |-> Some(2)],
      [gravitational_constant |-> Some(20), time_step |-> Some(0)],
      [gravitational_constant |-> None, time_step |-> Some(-2)] }

\* bodies of POST /simulation/start_reset that PUT /simulation/parameters
\* would refuse: SimulationStartRequest puts no bound on its fields
UncheckedResetRequests ==
    { Some([gravitational_constant |-> Some(-20), time_step |-> Some(2)]),
      Some([gravitational_constant |-> None, time_step |-> Some(0)]) }

\* a body of PUT /simulation/parameters with both fields, G = 0 among them
BothParameterRequests ==
    { [gravitational_constant |-> Some(0), time_step |-> Some(3)] }

\* a body of POST /simulation/bodies with a radius of zero
FlatBodyRequests ==
    { [id |-> "flat", mass |-> 10, position |-> Vector2D(60, 60), velocity |-> Vector2D(0, 10),
       radius |-> 0, color |-> <<200, 200, 200>>] }

\* a handler starts: the event loop is between callbacks
HandlerRuns ==
    /\ running = 0
    /\ ops < MaxOps
    /\ ops' = ops + 1

\* SimulationManager.reset_simulation: a new GravitySimulation replaces the managed one
reset_simulation(gravitational_constant, time_step) ==
    /\ sims' = Append(sims, ManagedSimulation(ValueOr(gravitational_constant, DEFAULT_G),
                                              ValueOr(time_step, DEFAULT_TIME_STEP)))
    /\ manager' = Len(sims) + 1

start_reset_simulation(request_data) ==
    LET g_const == IF request_data = None THEN DEFAULT_G
                   ELSE ValueOr(ValueOr(request_data, None).gravitational_constant, DEFAULT_G)
        t_step  == IF request_data = None THEN DEFAULT_TIME_STEP
                   ELSE ValueOr(ValueOr(request_data, None).time_step, DEFAULT_TIME_STEP)
    IN  /\ HandlerRuns
        /\ reset_simulation(Some(g_const), Some(t_step))
        /\ response' = SimulationStatusResponse(sims'[manager'])
        /\ lastOp' = [name |-> "start_reset", request_data |-> request_data]
        /\ UNCHANGED <<tasks, handle, should_stop, running, ticks, solo>>

pause_simulation ==
    /\ HandlerRuns
    /\ sims' = [sims EXCEPT ![manager].paused = TRUE]
    /\ response' = SimulationStatusResponse(sims'[manager])
    /\ lastOp' = [name |-> "pause"]
    /\ UNCHANGED <<manager, tasks, handle, should_stop, running, ticks, solo>>

resume_simulation ==
    /\ HandlerRuns
    /\ sims' = [sims EXCEPT ![manager].paused = FALSE]
    /\ response' = SimulationStatusResponse(sims'[manager])
    /\ lastOp' = [name |-> "resume"]
    /\ UNCHANGED <<manager, tasks, handle, should_stop, running, ticks, solo>>

get_simulation_status ==
    /\ HandlerRuns
    /\ response' = SimulationStatusResponse(get_simulation_instance)
    /\ lastOp' = [name |-> "status"]
    /\ UNCHANGED <<sims, manager, tasks, handle, should_stop, running, ticks, solo>>

\* POST /simulation/step: when update raises, the handler ends with the
\* exception (a 500) and the line restoring the paused flag does not run
step_simulation ==
    LET sim_instance == get_simulation_instance
        original_paused_state == sim_instance.paused
        r == update([sim_instance EXCEPT !.paused = FALSE], sim_instance.time_step_display)
    IN  /\ HandlerRuns
        /\ ticks < MaxTicks
        /\ ticks' = ticks + 1
        /\ IF r.raised
           THEN /\ sims' = [sims EXCEPT ![manager] = r.sim]
                /\ response' = [code |-> 500]
           ELSE /\ sims' = [sims EXCEPT ![manager] = [r.sim EXCEPT !.paused = original_paused_state]]
                /\ response' = SimulationStatusResponse(sims'[manager])
        /\ lastOp' = [name |-> "step", raised |-> r.raised]
        /\ UNCHANGED <<manager, tasks, handle, should_stop, running, solo>>

\* an id check that finds no collision
IdInUse_never(sim_instance, id) == FALSE

\* the loop over sim_instance.bodies that looks for a body with the id of the request
IdInUse(sim_instance, id) ==
    \E i \in 1..Len(sim_instance.bodies) : sim_instance.bodies[i].id = id

\* the handler of POST /simulation/bodies, whoever runs it
AddBodyHandler(body_request) ==
    LET sim_instance == get_simulation_instance
    IN  /\ IF IdInUse(sim_instance, body_request.id)
           THEN /\ response' = [code |-> 409]
                /\ UNCHANGED sims
           ELSE IF CelestialBodyRaises(body_request.mass, body_request.radius)
           THEN /\ response' = [code |-> 422]
                /\ UNCHANGED sims
           ELSE LET new_body == CelestialBody(body_request.mass, body_request.position,
                                              body_request.velocity, body_request.radius,
                                              body_request.color, body_request.id)
                IN  /\ sims' = [sims EXCEPT ![manager] = add_body(@, new_body)]
                    /\ response' = [code |-> 201, body |-> new_body]
        /\ lastOp' = [name |-> "add_body", id |-> body_request.id,
                       num_bodies |-> Len(sim_instance.bodies), request |-> body_request]

add_simulation_body(body_request) ==
    /\ HandlerRuns
    /\ AddBodyHandler(body_request)
    /\ UNCHANGED <<manager, tasks, handle, should_stop, running, ticks, solo>>

get_all_simulation_bodies ==
    /\ HandlerRuns
    /\ response' = [code |-> 200, bodies |-> get_simulation_instance.bodies]
    /\ lastOp' = [name |-> "bodies"]
    /\ UNCHANGED <<sims, manager, tasks, handle, should_stop, running, ticks, solo>>

\* a schema that lets a time_step of zero through
ParametersInvalid_negative_only(params) ==
    \/ params.gravitational_constant # None /\ ValueOr(params.gravitational_constant, 0) < 0
    \/ params.time_step # None /\ ValueOr(params.time_step, 0) < 0

\* SimulationParametersRequest: Field(ge=0.0) on gravitational_constant and
\* Field(gt=0.0) on time_step; None passes
ParametersInvalid(params) ==
    \/ params.gravitational_constant # None /\ ~(ValueOr(params.gravitational_constant, 0) >= 0)
    \/ params.time_step # None /\ ~(ValueOr(params.time_step, 0) > 0)

\* PUT /simulation/parameters: a body that fails the schema is answered with
\* 422 before the handler is called
update_simulation_parameters(params) ==
    LET sim_instance == get_simulation_instance
    IN  /\ HandlerRuns
        /\ IF ParametersInvalid(params)
           THEN /\ response' = [code |-> 422]
                /\ UNCHANGED sims
           ELSE /\ sims' = [sims EXCEPT ![manager] =
                             [sim_instance EXCEPT
                                 !.gravitational_constant = ValueOr(params.gravitational_constant, @),
                                 !.time_step_display = ValueOr(params.time_step, @)]]
                /\ response' = SimulationStatusResponse(sims'[manager])
        /\ lastOp' = [name |-> "parameters", params |-> params]
        /\ UNCHANGED <<manager, tasks, handle, should_stop, running, ticks, solo>>

----------------------------------------------------------------------------
(* Spec: the API process, its handlers and its background loop on one        *)
(* asyncio event loop                                                       *)

\* the process after import: the singleton is constructed at its first use,
\* before anything can read or change the simulation
Init ==
    /\ Quiet
    /\ sims = << ManagedSimulation(DEFAULT_G, DEFAULT_TIME_STEP) >>
    /\ manager = 1
    /\ solo = NoBody

Next ==
    \/ start_simulation_loop_task
    \/ stop_simulation_loop_task
    \/ \E t \in DOMAIN tasks : LoopStart(t)
    \/ \E t \in DOMAIN tasks : LoopWake(t)
    \/ \E t \in DOMAIN tasks : TickForces(t)
    \/ \E t \in DOMAIN tasks : TickApply(t)
    \/ \E t \in DOMAIN tasks : TickPosition(t)
    \/ \E t \in DOMAIN tasks : LoopCancelled(t)
    \/ \E request_data \in ResetRequests : start_reset_simulation(request_data)
    \/ pause_simulation
    \/ resume_simulation
    \/ get_simulation_status
    \/ step_simulation
    \/ \E body_request \in AddBodyRequests : add_simulation_body(body_request)
    \/ get_all_simulation_bodies
    \/ \E params \in ParameterRequests : update_simulation_parameters(params)

Spec == Init /\ [][Next]_vars

\* the event loop runs every callback that is ready: a started or woken task
\* is not left waiting for ever
FairSpec == Spec /\ WF_vars(\E t \in DOMAIN tasks : LoopStep(t))

----------------------------------------------------------------------------
(* The same loop when add_simulation_body runs on a thread of its own: its   *)
(* steps fall between any two steps of a tick. The handler only reads the    *)
(* ids of the bodies, which no tick changes, and its one write to the        *)
(* simulation is the list.append of add_body, so it is taken as one step.    *)

ThreadedAddBody(body_request) ==
    /\ ops < MaxOps
    /\ ops' = ops + 1
    /\ AddBodyHandler(body_request)
    /\ UNCHANGED <<manager, tasks, handle, should_stop, running, ticks, solo>>

NextThreads ==
    \/ start_simulation_loop_task
    \/ \E t \in DOMAIN tasks : LoopStart(t)
    \/ \E t \in DOMAIN tasks : LoopWake(t)
    \/ \E t \in DOMAIN tasks : TickForces(t)
    \/ \E t \in DOMAIN tasks : TickApply(t)
    \/ \E t \in DOMAIN tasks : TickPosition(t)
    \/ \E body_request \in AddBodyRequests : ThreadedAddBody(body_request)

SpecThreads == Init /\ [][NextThreads]_vars

\* tasks whose coroutine has not returned
PendingTasks == {t \in DOMAIN tasks : tasks[t].state = "pending"}

\* tasks that are inside update
TasksInTick == {t \in DOMAIN tasks : tasks[t].pc \in {"forces", "apply", "position"}}

\* a tick of the background loop, run to its end, leaves the simulation as
\* update(time_step) leaves it
TickIsUpdate ==
    [][\A t \in DOMAIN tasks :
         (tasks[t].pc = "position" /\ tasks'[t].pc = "sleep") =>
             sims'[tasks[t].simulation] = update(tasks[t].entry, tasks[t].time_step).sim]_vars

\* C4: an exception raised by update during a tick of the background loop is
\* caught and the loop goes on: the loop task never ends with an exception.
C4_TickExceptionCaught ==
    \A t \in DOMAIN tasks : tasks[t].state # "failed"

\* C5: the simulation a running background loop advances is the one
\* SimulationManager().get_simulation_instance() returns to the control
\* operations, also after a reset.
C5_StepperAdvancesManagedInstance ==
    \A t \in PendingTasks : tasks[t].simulation # 0 => tasks[t].simulation = manager

\* C6: whatever start_simulation_loop_task and stop_simulation_loop_task calls
\* were made, at most one background loop is alive and at most one tick is
\* in progress.
C6_AtMostOneLoop ==
    /\ Cardinality(PendingTasks) <= 1
    /\ Cardinality(TasksInTick) <= 1

\* start was called while the loop of an earlier start, which has ticked, is alive
C6_Witness ==
    /\ lastOp.name = "start_simulation_loop_task"
    /\ ~lastOp.created
    /\ Len(tasks) = 2
    /\ tasks[1].state = "finished"
    /\ tasks[2].state = "pending"
    /\ tasks[2].pc = "sleep"
    /\ ticks > 0

\* stop was signalled to the running loop t
StopSignalled(t) ==
    t \in DOMAIN tasks /\ tasks[t].state = "pending" /\ should_stop

\* task.done()
TaskDone(t) == t \in DOMAIN tasks /\ tasks[t].state # "pending"

\* C7: once stop_simulation_loop_task has signalled a running loop, the loop
\* task becomes done, and it ends from between two ticks: the step that ends
\* it is taken where the loop waits, never inside update.
C7_StopTerminatesLoop ==
    /\ [][\A t \in DOMAIN tasks :
            (StopSignalled(t) /\ tasks'[t].state # "pending") =>
                (tasks[t].pc \in {"start", "sleep"} /\ tasks'[t].state = "finished")]_vars
    /\ \A t \in 1..MaxTasks : StopSignalled(t) ~> TaskDone(t)

\* a loop that had ticked ended after stop_simulation_loop_task signalled it
C7_Witness ==
    /\ lastOp.name = "stop_simulation_loop_task"
    /\ lastOp.signalled
    /\ should_stop
    /\ handle # 0
    /\ tasks[handle].state = "finished"
    /\ ticks > 0

\* C8: no control operation runs inside a tick: whenever the event loop is
\* free to run a handler, no background loop stands between the force
\* computation, the velocity updates and the position updates of update.
C8_TickAtomic ==
    running = 0 => TasksInTick = {}

\* a handler has run after a tick of the live loop completed
C8_Witness ==
    /\ running = 0
    /\ ops > 0
    /\ ticks > 0
    /\ \E t \in PendingTasks :
          /\ tasks[t].pc = "sleep"
          /\ Len(sims[tasks[t].simulation].bodies[1].trail) > 0
    /\ lastOp.name = "bodies"

\* the bodies a tick in its velocity phase has stepped that were appended
\* after its force computation: they have no entry in forces_this_step
LateBodies(t) ==
    IF tasks[t].pc = "apply"
    THEN {k \in 1..Len(sims[tasks[t].simulation].bodies) :
             k < tasks[t].i /\ k > Len(tasks[t].forces)}
    ELSE {}

\* the body was stepped with a zero force: its velocity is the one it was added with
SteppedWithZeroForce(body) ==
    \E body_request \in AddBodyRequests :
        body_request.id = body.id /\ body_request.velocity = body.velocity

\* the tick that ended task t with an exception would have raised it on the
\* bodies it started with
FailsWithoutAddBody(t) == calculate_net_forces(tasks[t].entry).raised

IsHandler(name) == ops' = ops + 1 /\ lastOp'.name = name

\* the step is a call of start_simulation_loop_task
IsStartCall ==
    /\ lastOp'.name = "start_simulation_loop_task"
    /\ running = 0
    /\ tasks' = tasks \/ Len(tasks') = Len(tasks) + 1

\* C26: when start_simulation_loop_task returns, a background loop is alive
\* that is not told to stop, so it goes on ticking; this also holds for a
\* start called after a stop whose loop has not ended yet.
C26_StartLeavesTickingLoop ==
    [][IsStartCall =>
         /\ \E t \in DOMAIN tasks' : tasks'[t].state = "pending"
         /\ ~should_stop']_vars

\* C27: while a simulation is paused, no background tick and no handler other
\* than POST /simulation/step on it changes the position, the velocity or the
\* trail of any of its bodies.
C27_PausedSimulationFrozen ==
    [][\A s \in DOMAIN sims :
          (sims[s].paused /\ ~(s = manager /\ IsHandler("step"))) =>
              \A i \in 1..Len(sims[s].bodies) :
                  /\ sims'[s].bodies[i].position = sims[s].bodies[i].position
                  /\ sims'[s].bodies[i].velocity = sims[s].bodies[i].velocity
                  /\ sims'[s].bodies[i].trail = sims[s].bodies[i].trail]_vars

\* the loop went through an iteration after POST /simulation/pause: it is
\* asleep on the managed simulation, which no tick has moved
C27_Witness ==
    /\ lastOp.name = "pause"
    /\ sims[manager].paused
    /\ ticks = 0
    /\ \E t \in PendingTasks : tasks[t].pc = "sleep" /\ tasks[t].simulation = manager
    /\ \A i \in 1..Len(sims[manager].bodies) : sims[manager].bodies[i].trail = <<>>

\* the step takes a task of the background loop into update
TickStarts(t) == tasks[t].pc \in {"start", "sleep"} /\ tasks'[t].pc = "forces"

\* C30: a tick that starts after a successful parameter update calls update
\* with the time_step_display, and computes its forces with the
\* gravitational_constant, that the managed simulation has at that moment.
C30_TickUsesCurrentParameters ==
    [][\A t \in DOMAIN tasks :
          (TickStarts(t) /\ lastOp.name = "parameters" /\ response.code = 200) =>
              /\ tasks'[t].time_step = sims[manager].time_step_display
              /\ sims[tasks'[t].simulation].gravitational_constant
                     = sims[manager].gravitational_constant]_vars

\* C33: once stop_simulation_loop_task has set the stop flag on a running
\* loop, that loop starts no tick any more, whatever is called afterwards,
\* start_simulation_loop_task before the loop has ended included.
C33_NoTickAfterStop ==
    /\ [][\A t \in DOMAIN tasks : StopSignalled(t) => ~TickStarts(t)]_vars
    /\ \A t \in 1..MaxTasks : [](StopSignalled(t) => [](t \notin TasksInTick))

\* a loop that had ticked once was told to stop, start was called while it
\* was still alive, and it has ended without another tick
C33_Witness ==
    /\ lastOp.name = "start_simulation_loop_task"
    /\ ~lastOp.created
    /\ Len(tasks) = 1
    /\ tasks[1].state = "finished"
    /\ should_stop
    /\ ticks = 1
    /\ ops = 0

----------------------------------------------------------------------------
(* SpecSingleton: SimulationManager as its metaclass hands it out. Every     *)
(* handler starts with SimulationManager(); solo holds the _instances        *)
(* dictionary of the metaclass, the SimulationManager objects constructed    *)
(* so far, each with its simulation, and the object the last call returned   *)

\* number of SimulationManager() calls
MaxManagerCalls == 4

\* a metaclass that constructs an instance on every call
SimulationSingletonMeta_call_always_new(instances, next) ==
    [instances |-> {next}, instance |-> next, constructed |-> TRUE]

\* SimulationSingletonMeta.__call__: construct on the first call, afterwards
\* return the instance kept in _instances; next is the object a
\* construction makes
SimulationSingletonMeta_call(instances, next) ==
    IF instances = None
    THEN [instances |-> Some(next), instance |-> next, constructed |-> TRUE]
    ELSE [instances |-> instances, instance |-> CHOOSE m \in instances : TRUE,
          constructed |-> FALSE]

\* SimulationManager(): the call of the metaclass and, when it constructs,
\* SimulationManager.__init__ with its new simulation and default bodies
ManagerCall ==
    LET r == SimulationSingletonMeta_call(solo.instances, Len(solo.managers) + 1)
    IN  [instances |-> r.instances,
         instance  |-> r.instance,
         managers  |-> IF r.constructed
                       THEN Append(solo.managers, [simulation |-> Len(sims) + 1])
                       ELSE solo.managers,
         sims      |-> IF r.constructed
                       THEN Append(sims, ManagedSimulation(DEFAULT_G, DEFAULT_TIME_STEP))
                       ELSE sims]

InitSingleton ==
    /\ Quiet
    /\ sims = <<>>
    /\ manager = 0
    /\ solo = [n |-> 0, instances |-> None, managers |-> <<>>, returned |-> 0]

\* what every handler of this specification shares: the call is counted and
\* the object it returned is kept
SingletonHandler(call, managers, name) ==
    /\ solo.n < MaxManagerCalls
    /\ solo' = [n |-> solo.n + 1, instances |-> call.instances, managers |-> managers,
                returned |-> call.instance]
    /\ manager' = managers[call.instance].simulation
    /\ response' = SimulationStatusResponse(sims'[manager'])
    /\ lastOp' = [name |-> name, constructed |-> Len(call.managers) > Len(solo.managers)]
    /\ UNCHANGED <<tasks, handle, should_stop, running, ticks, ops>>

\* GET /simulation/status
SingletonStatus ==
    LET call == ManagerCall
    IN  /\ sims' = call.sims
        /\ SingletonHandler(call, call.managers, "status")

\* POST /simulation/pause and POST /simulation/resume
SingletonSetPaused(name, paused) ==
    LET call == ManagerCall
    IN  /\ sims' = [call.sims EXCEPT ![call.managers[call.instance].simulation].paused = paused]
        /\ SingletonHandler(call, call.managers, name)

\* PUT /simulation/parameters
SingletonParameters(params) ==
    LET call == ManagerCall
    IN  /\ sims' = [call.sims EXCEPT ![call.managers[call.instance].simulation] =
                       [@ EXCEPT !.gravitational_constant = ValueOr(params.gravitational_constant, @),
                                 !.time_step_display = ValueOr(params.time_step, @)]]
        /\ SingletonHandler(call, call.managers, "parameters")

\* POST /simulation/start_reset: reset_simulation gives the manager a new simulation
SingletonReset(request_data) ==
    LET call    == ManagerCall
        g_const == IF request_data = None THEN DEFAULT_G
                   ELSE ValueOr(ValueOr(request_data, None).gravitational_constant, DEFAULT_G)
        t_step  == IF request_data = None THEN DEFAULT_TIME_STEP
                   ELSE ValueOr(ValueOr(request_data, None).time_step, DEFAULT_TIME_STEP)
    IN  /\ sims' = Append(call.sims, ManagedSimulation(g_const, t_step))
        /\ SingletonHandler(call,
                            [call.managers EXCEPT ![call.instance].simulation = Len(call.sims) + 1],
                            "start_reset")

NextSingleton ==
    \/ SingletonStatus
    \/ SingletonSetPaused("pause", TRUE)
    \/ SingletonSetPaused("resume", FALSE)
    \/ \E params \in ParameterRequests : SingletonParameters(params)
    \/ \E request_data \in ResetRequests : SingletonReset(request_data)

SpecSingleton == InitSingleton /\ [][NextSingleton]_vars

\* C37: SimulationManager() constructs a manager on its first call only and
\* returns that same object on every call; a simulation is created by the
\* one run of the constructor and by resets, by nothing else.
C37_ManagerIsSingleton ==
    /\ [](/\ Len(solo.managers) <= 1
          /\ solo.n > 0 => (Len(solo.managers) = 1 /\ solo.instances = Some(solo.returned)))
    /\ [][solo'.n = solo.n + 1 =>
            /\ lastOp'.constructed <=> solo.n = 0
            /\ solo.n > 0 => solo'.returned = solo.returned
            /\ Len(sims') = Len(sims) + (IF solo.n = 0 THEN 1 ELSE 0)
                                      + (IF lastOp'.name = "start_reset" THEN 1 ELSE 0)]_vars

\* the fourth call returned the manager of the first; its simulation, the
\* second, came from a reset and was paused afterwards
C37_Witness ==
    /\ solo.n = MaxManagerCalls
    /\ Len(solo.managers) = 1
    /\ solo.returned = 1
    /\ Len(sims) = 2
    /\ manager = 2
    /\ sims[2].paused
    /\ lastOp.name = "status"

----------------------------------------------------------------------------
(* SpecControl: the control API and the background loop some time after      *)
(* startup, when the managed simulation runs or has been paused by           *)
(* POST /simulation/pause, and with request bodies that fail the schema      *)

InitControl ==
    /\ Quiet
    /\ \E paused \in BOOLEAN :
          sims = << [ManagedSimulation(DEFAULT_G, DEFAULT_TIME_STEP) EXCEPT !.paused = paused] >>
    /\ manager = 1
    /\ solo = NoBody

NextControl ==
    \/ start_simulation_loop_task
    \/ \E t \in DOMAIN tasks : LoopStart(t)
    \/ \E t \in DOMAIN tasks : LoopWake(t)
    \/ \E t \in DOMAIN tasks : TickForces(t)
    \/ \E t \in DOMAIN tasks : TickApply(t)
    \/ \E t \in DOMAIN tasks : TickPosition(t)
    \/ \E request_data \in ResetRequests \cup UncheckedResetRequests :
          start_reset_simulation(request_data)
    \/ pause_simulation
    \/ resume_simulation
    \/ get_simulation_status
    \/ step_simulation
    \/ \E body_request \in AddBodyRequests \cup FlatBodyRequests :
          add_simulation_body(body_request)
    \/ get_all_simulation_bodies
    \/ \E params \in ParameterRequests \cup BothParameterRequests \cup InvalidParameterRequests :
          update_simulation_parameters(params)

SpecControl == InitControl /\ [][NextControl]_vars

\* C15: whatever control operations and background ticks have run, the ids
\* of the bodies of the managed simulation are pairwise distinct; an add-body
\* request with the id of a body of the managed simulation is answered with
\* 409 and leaves the bodies as they were.
C15_ManagedIdsDistinct ==
    /\ [] DistinctIds(sims[manager])
    /\ [][(/\ IsHandler("add_body")
           /\ \E i \in 1..Len(sims[manager].bodies) : sims[manager].bodies[i].id = lastOp'.id)
          => (response'.code = 409 /\ sims' = sims)]_vars

\* a body was added through the API, a tick has moved the bodies, and a second
\* request with the id of the added body was answered with 409
C15_Witness ==
    /\ lastOp.name = "add_body"
    /\ response.code = 409
    /\ lastOp.id = "mars"
    /\ Len(sims[manager].bodies) = Len(DefaultBodies) + 1
    /\ \E i \in 1..Len(sims[manager].bodies) : Len(sims[manager].bodies[i].trail) > 0

\* C16: POST /simulation/step advances the managed simulation by exactly one
\* update with dt = time_step_display, paused or not, and leaves the paused
\* flag as it found it; no task of the background loop is inside a tick or
\* moves while the handler runs.
C16_StepRestoresPaused ==
    [][IsHandler("step") =>
         LET sim_instance == sims[manager]
             r == update([sim_instance EXCEPT !.paused = FALSE], sim_instance.time_step_display)
         IN  /\ sims'[manager] = [r.sim EXCEPT !.paused = sim_instance.paused]
             /\ sims'[manager].paused = sim_instance.paused
             /\ tasks' = tasks
             /\ TasksInTick = {}]_vars

\* C17: the paused flag of a simulation changes only in a step that is the
\* run of a pause or a resume command: no tick, no other handler and no
\* update changes it.
C17_PausedChangesOnlyByCommand ==
    [][\A s \in DOMAIN sims :
          sims'[s].paused # sims[s].paused =>
              IsHandler("pause") \/ IsHandler("resume")]_vars

\* C18: a parameter update whose gravitational_constant is negative or whose
\* time_step is not positive is answered with 422 and changes neither
\* gravitational_constant nor time_step_display, whatever its other field is.
C18_InvalidParametersRejected ==
    [][(/\ IsHandler("parameters")
        /\ \/ \E g \in lastOp'.params.gravitational_constant : g < 0
           \/ \E t \in lastOp'.params.time_step : t <= 0)
       => /\ response'.code = 422
          /\ sims'[manager].gravitational_constant = sims[manager].gravitational_constant
          /\ sims'[manager].time_step_display = sims[manager].time_step_display
          /\ sims' = sims]_vars

\* a request with a valid G that the simulation does not have and a
\* time_step of zero was answered with 422
C18_Witness ==
    /\ lastOp.name = "parameters"
    /\ response.code = 422
    /\ \E g \in lastOp.params.gravitational_constant :
          g >= 0 /\ g # sims[manager].gravitational_constant
    /\ lastOp.params.time_step = Some(0)

\* C28: after POST /simulation/start_reset the manager holds a new simulation
\* whose gravitational_constant and time_step_display are the values of the
\* request, or the defaults where the request has none, that is not paused
\* whatever the one before was, and whose bodies are the sun, the earth and
\* the moon, in this order, with empty trails.
C28_ResetInstallsDefaults ==
    [][IsHandler("start_reset") =>
         LET request == lastOp'.request_data
             sim     == sims'[manager']
         IN  /\ manager' \notin DOMAIN sims
             /\ \A r \in request :
                   /\ \A g \in r.gravitational_constant : sim.gravitational_constant = g
                   /\ r.gravitational_constant = None => sim.gravitational_constant = DEFAULT_G
                   /\ \A ts \in r.time_step : sim.time_step_display = ts
                   /\ r.time_step = None => sim.time_step_display = DEFAULT_TIME_STEP
             /\ request = None => /\ sim.gravitational_constant = DEFAULT_G
                                  /\ sim.time_step_display = DEFAULT_TIME_STEP
             /\ ~sim.paused
             /\ Len(sim.bodies) = 3
             /\ sim.bodies[1].id = "sun" /\ sim.bodies[2].id = "earth" /\ sim.bodies[3].id = "moon"
             /\ sim.bodies = DefaultBodies
             /\ \A i \in 1..3 : sim.bodies[i].trail = <<>>]_vars

\* a paused simulation that POST /simulation/step had moved was replaced by
\* a reset with a gravitational constant of the caller
C28_Witness ==
    /\ lastOp.name = "start_reset"
    /\ lastOp.request_data # None
    /\ manager = 2
    /\ sims[1].paused
    /\ Len(sims[1].bodies[1].trail) > 0
    /\ ~sims[2].paused
    /\ sims[2].gravitational_constant = 20
    /\ sims[2].gravitational_constant # DEFAULT_G
    /\ sims[2].bodies = DefaultBodies

\* C29: whatever control operations have run, POST /simulation/start_reset
\* with values of the caller among them, the managed simulation has
\* gravitational_constant >= 0 and time_step_display > 0.
C29_ManagedParametersInRange ==
    /\ sims[manager].gravitational_constant >= 0
    /\ sims[manager].time_step_display > 0

\* C32: the bodies of a simulation object only grow at the end: no tick, no
\* single step, no parameter update, no pause, resume or status read and no
\* refused add-body removes or reorders a body, so the body at an index stays
\* there; the list grows by one body, on an accepted add-body, and the
\* manager takes another simulation object only on a reset.
C32_BodiesOnlyAppended ==
    [][/\ \A s \in DOMAIN sims :
            /\ Len(sims'[s].bodies) >= Len(sims[s].bodies)
            /\ \A i \in 1..Len(sims[s].bodies) :
                  /\ sims'[s].bodies[i].id = sims[s].bodies[i].id
                  /\ sims'[s].bodies[i].mass = sims[s].bodies[i].mass
                  /\ sims'[s].bodies[i].radius = sims[s].bodies[i].radius
                  /\ sims'[s].bodies[i].color = sims[s].bodies[i].color
            /\ Len(sims'[s].bodies) # Len(sims[s].bodies) =>
                  /\ IsHandler("add_body")
                  /\ response'.code = 201
                  /\ s = manager
                  /\ Len(sims'[s].bodies) = Len(sims[s].bodies) + 1
       /\ manager' # manager => IsHandler("start_reset")]_vars

\* a body added through the API stands behind the three default bodies after
\* POST /simulation/step has moved all four
C32_Witness ==
    /\ lastOp.name = "step"
    /\ ~lastOp.raised
    /\ manager = 1
    /\ Len(sims[manager].bodies) = 4
    /\ sims[manager].bodies[1].id = "sun"
    /\ sims[manager].bodies[2].id = "earth"
    /\ sims[manager].bodies[3].id = "moon"
    /\ sims[manager].bodies[4].id = "mars"
    /\ \A i \in 1..4 : Len(sims[manager].bodies[i].trail) = 1

\* C34: PUT /simulation/parameters changes only the fields the request has:
\* with gravitational_constant alone time_step_display stays as it was, and
\* the other way round; an accepted request sets the fields it has; paused,
\* the bodies and the state of every body are what they were before, as is
\* every other simulation object and the background loop.
C34_ParameterUpdateFrame ==
    [][IsHandler("parameters") =>
         LET params == lastOp'.params
             before == sims[manager]
             after  == sims'[manager]
         IN  /\ manager' = manager
             /\ params.gravitational_constant = None =>
                   after.gravitational_constant = before.gravitational_constant
             /\ params.time_step = None =>
                   after.time_step_display = before.time_step_display
             /\ response'.code = 200 =>
                   /\ \A g \in params.gravitational_constant : after.gravitational_constant = g
                   /\ \A ts \in params.time_step : after.time_step_display = ts
             /\ after.paused = before.paused
             /\ after.bodies = before.bodies
             /\ after.epsilon = before.epsilon
             /\ after.net_forces = before.net_forces
             /\ \A s \in DOMAIN sims : s # manager => sims'[s] = sims[s]
             /\ tasks' = tasks]_vars

\* a paused simulation that POST /simulation/step had moved was given a new
\* gravitational constant and kept its time step
C34_Witness ==
    /\ lastOp.name = "parameters"
    /\ response.code = 200
    /\ lastOp.params.gravitational_constant = Some(20)
    /\ lastOp.params.time_step = None
    /\ sims[manager].gravitational_constant = 20
    /\ sims[manager].time_step_display = DEFAULT_TIME_STEP
    /\ sims[manager].paused
    /\ Len(sims[manager].bodies[1].trail) > 0

\* C35: POST /simulation/bodies with the id of a body of the managed
\* simulation is answered with 409, and otherwise with a mass or a radius
\* that is not positive with 422; both leave the bodies and all other state
\* as they were. Any other request is answered with 201 and appends one body
\* that has the id, mass, position, velocity, radius and color of the request
\* and an empty trail, and changes nothing else.
C35_AddBodyAllOrNothing ==
    [][IsHandler("add_body") =>
         LET request  == lastOp'.request
             before   == sims[manager]
             after    == sims'[manager]
             conflict == \E i \in 1..Len(before.bodies) : before.bodies[i].id = request.id
             invalid  == request.mass <= 0 \/ request.radius <= 0
         IN  /\ manager' = manager
             /\ tasks' = tasks
             /\ \A s \in DOMAIN sims : s # manager => sims'[s] = sims[s]
             /\ conflict => response'.code = 409
             /\ (~conflict /\ invalid) => response'.code = 422
             /\ (~conflict /\ ~invalid) => response'.code = 201
             /\ response'.code \in {409, 422} => sims' = sims
             /\ response'.code = 201 =>
                   /\ Len(after.bodies) = Len(before.bodies) + 1
                   /\ SubSeq(after.bodies, 1, Len(before.bodies)) = before.bodies
                   /\ LET body == after.bodies[Len(after.bodies)]
                      IN  /\ body.id = request.id
                          /\ body.mass = request.mass
                          /\ body.position = request.position
                          /\ body.velocity = request.velocity
                          /\ body.radius = request.radius
                          /\ body.color = request.color
                          /\ body.trail = <<>>
                   /\ [after EXCEPT !.bodies = before.bodies] = before]_vars

\* after a body was added through the API, a request with a positive mass
\* and a radius of zero was answered with 422
C35_Witness ==
    /\ lastOp.name = "add_body"
    /\ response.code = 422
    /\ lastOp.request.mass > 0
    /\ lastOp.request.radius <= 0
    /\ Len(sims[manager].bodies) = 4
    /\ sims[manager].bodies[4].id = "mars"
    /\ sims[manager].bodies[4].mass = 10
    /\ sims[manager].bodies[4].radius = 5

============================================================================
